---- MODULE Spec2Model ----
(***************************************************************************)
(* Model of the dojo task-scoring subnet core:                             *)
(*   - the simulated miner's request handlers (simulator/miner.py),        *)
(*   - the ORM over the relational store (commons/orm.py, with the         *)
(*     mappers of database/mappers.py),                                    *)
(*   - the validator's task-result monitor (commons/dojo_task_tracker.py). *)
(* The specifications of the module: SpecMiner (the miner's handlers),     *)
(* Spec (the ORM as an API called in any order), SpecSave (save_task with  *)
(* every kind of input), SpecMonitor (the monitor loop running next to the *)
(* validator's saves and scoring passes) and FairSpecMonitor (the same,    *)
(* with a monitor that keeps being scheduled).                             *)
(***************************************************************************)
EXTENDS Integers, Sequences, FiniteSets, TLC

\* ------------------------------------------------------------------------
\* Bounds of the model
\* ------------------------------------------------------------------------
MaxCount == 2        \* history counters saturate here
MaxTime == 3         \* the clock runs over 0..MaxTime

None == "None"

RequestIds == {"r1", "r2"}
ValidatorHotkeys == {"v1"}
Models == {"A", "B"}

\* a Python dict is a set of <<key, value>> pairs with unique keys
EmptyMap == {}
Keys(m) == {p[1] : p \in m}
Get(m, k, default) == IF k \in Keys(m) THEN (CHOOSE p \in m : p[1] = k)[2] ELSE default

Range(s) == {s[i] : i \in 1..Len(s)}

Sat(n) == IF n < MaxCount THEN n + 1 ELSE MaxCount

VARIABLES
    \* ---- simulated miner (simulator/miner.py)
    redis,               \* the TTL cache: request id -> stored synapse or None
    hotkey_to_request,   \* the in-memory hotkey -> request table
    miner_op,            \* the handler call that ran last, with its input
    miner_ret,           \* the synapse that call returned
    nonEmptyCount        \* history: polls answered with results since the id was last stored

minerVars == <<redis, hotkey_to_request, miner_op, miner_ret, nonEmptyCount>>

VARIABLES
    \* ---- relational store and ORM (commons/orm.py)
    db,                  \* the committed tables: ValidatorTask, Completion, GroundTruth,
                         \* MinerResponse and the miners' completion rows
    orm_op,              \* the ORM call that ran last
    orm_arg,             \* the argument of the last save_task call
    orm_ret,             \* what that call returned, raised or yielded
    gen,                 \* the get_expired_tasks generator between two yields
    marked               \* history: ids a successful mark_validator_task_as_processed covered

ormVars == <<db, orm_op, orm_arg, orm_ret, gen, marked>>

VARIABLES
    \* ---- task-result monitor (commons/dojo_task_tracker.py)
    mon,                 \* the monitor coroutine: its position and local variables
    _should_exit,        \* DojoTaskTracker._should_exit
    clock                \* the wall clock

monVars == <<mon, _should_exit, clock>>

VARIABLES
    \* ---- one call of a function, drawn with its input
    call,                \* the function, its arguments and how far the call has come
    result               \* what it returned or raised, once it ended

fnVars == <<call, result>>

VARIABLES
    \* ---- legacy store and DataManager (commons/data_manager.py)
    dm_db,               \* the committed tables miner_response_model and completion_response_model
    dm_tx,               \* the overwrite call in flight: its position, arguments and open transaction
    dm_reader            \* history: what the last reader of one request's rows was given

dmVars == <<dm_db, dm_tx, dm_reader>>

vars == <<minerVars, ormVars, monVars, fnVars, dmVars>>

\* ------------------------------------------------------------------------
\* Simulated miner
\* ------------------------------------------------------------------------
GroundTruths == {EmptyMap, {<<"A", 1>>, <<"B", 2>>}}
CriteriaLists == {<<>>, <<"MULTI_SCORE", "RANKING_CRITERIA">>}
CompletionLists == {<<>>, <<"A", "B">>}

\* the FeedbackRequest synapses a validator can send
FeedbackRequests ==
    [request_id : RequestIds,
     hotkey : ValidatorHotkeys \cup {None},
     completion_responses : CompletionLists,
     ground_truth : GroundTruths,
     criteria_types : CriteriaLists,
     dojo_task_id : {None}]

\* an absent cache entry or table slot (Python None)
NoRequest ==
    [request_id |-> None, hotkey |-> None, completion_responses |-> <<>>,
     ground_truth |-> EmptyMap, criteria_types |-> <<>>, dojo_task_id |-> None]

Jitters == {{}, {"A"}}      \* the keys whose jitter is negative in one poll
Behaviors == {"normal", "no_response", "timeout"}

RedisKey(id) == id      \* "feedback:{id}", one key per request id

_get_task_status(behavior) ==
    IF behavior \in {"timeout", "no_response"} THEN "FAILED" ELSE "COMPLETED"

\* int(v + U[-0.5, 0.5]) is v - 1 when the jitter is negative and v otherwise
\* (v + 0.5 itself truncates to v); down is the set of keys jittered downwards.
\* (k / 9) * 99 + 1 truncates to 11 k + 1 for every k in 0..10.
\* variant: no clamping
Unclamped(s) == s

ClampScore(s) == IF s < 1 THEN 1 ELSE IF s > 100 THEN 100 ELSE s

_generate_scores(ground_truth, down) ==
    {<<p[1], ClampScore(11 * (IF p[1] \in down THEN p[2] - 1 ELSE p[2]) + 1)>> : p \in ground_truth}

EmptyTaskResultRequest(task_id) == [task_id |-> task_id, task_results |-> <<>>]

\* variant: the synapse is tagged and indexed before it is validated
FeedbackOutcomeIndexesFirst(synapse, fault) ==
    LET new_synapse == [synapse EXCEPT !.completion_responses = <<>>]
        tagged == [synapse EXCEPT !.dojo_task_id = synapse.request_id]
        scrubbed == [tagged EXCEPT !.ground_truth = EmptyMap]
    IN IF synapse.hotkey = None \/ synapse.completion_responses = <<>>
       THEN [ret |-> tagged, redis |-> redis, table |-> hotkey_to_request, stored |-> FALSE]
       ELSE IF fault = "set"
       THEN [ret |-> tagged, redis |-> redis,
             table |-> [hotkey_to_request EXCEPT ![synapse.hotkey] = tagged],
             stored |-> FALSE]
       ELSE [ret |-> scrubbed,
             redis |-> [redis EXCEPT ![RedisKey(synapse.request_id)] = new_synapse],
             table |-> [hotkey_to_request EXCEPT ![synapse.hotkey] = scrubbed],
             stored |-> TRUE]

\* the result of forward_feedback_request: the returned synapse, the cache
\* and the hotkey table after the call, and whether the request was stored
FeedbackOutcome(synapse, fault) ==
    IF synapse.hotkey = None \/ synapse.completion_responses = <<>>
    THEN [ret |-> synapse, redis |-> redis, table |-> hotkey_to_request, stored |-> FALSE]
    ELSE LET new_synapse == [synapse EXCEPT !.completion_responses = <<>>]
             tagged == [synapse EXCEPT !.dojo_task_id = synapse.request_id]
             scrubbed == [tagged EXCEPT !.ground_truth = EmptyMap]
         IN IF fault = "set"
            THEN \* redis_client.set raised: the handler's except returns the synapse
                 [ret |-> tagged, redis |-> redis,
                  table |-> [hotkey_to_request EXCEPT ![synapse.hotkey] = tagged],
                  stored |-> FALSE]
            ELSE [ret |-> scrubbed,
                  redis |-> [redis EXCEPT ![RedisKey(synapse.request_id)] = new_synapse],
                  \* the table holds the very object that is scrubbed afterwards
                  table |-> [hotkey_to_request EXCEPT ![synapse.hotkey] = scrubbed],
                  stored |-> TRUE]

\* variant: no deep copy, the cached object is the synapse itself, cleared
\* and tagged before it is dumped into the cache
forward_feedback_request_shares_object(synapse, fault) ==
    LET out == FeedbackOutcome(synapse, fault)
        shared == [synapse EXCEPT !.completion_responses = <<>>,
                                  !.dojo_task_id = synapse.request_id]
    IN
    /\ redis' = IF out.stored
                THEN [redis EXCEPT ![RedisKey(synapse.request_id)] = shared]
                ELSE out.redis
    /\ hotkey_to_request' = out.table
    /\ miner_ret' = IF out.stored
                    THEN [shared EXCEPT !.ground_truth = EmptyMap]
                    ELSE out.ret
    /\ miner_op' = [name |-> "forward_feedback_request", id |-> synapse.request_id,
                    synapse |-> synapse, behavior |-> None, fault |-> fault]
    /\ nonEmptyCount' = IF out.stored
                        THEN [nonEmptyCount EXCEPT ![synapse.request_id] = 0]
                        ELSE nonEmptyCount

forward_feedback_request(synapse, fault) ==
    LET out == FeedbackOutcome(synapse, fault) IN
    /\ redis' = out.redis
    /\ hotkey_to_request' = out.table
    /\ miner_ret' = out.ret
    /\ miner_op' = [name |-> "forward_feedback_request", id |-> synapse.request_id,
                    synapse |-> synapse, behavior |-> None, fault |-> fault]
    /\ nonEmptyCount' = IF out.stored
                        THEN [nonEmptyCount EXCEPT ![synapse.request_id] = 0]
                        ELSE nonEmptyCount

BuildTaskResults(feedback_request, task_id, behavior, down) ==
    [i \in 1..Len(feedback_request.criteria_types) |->
        [status |-> _get_task_status(behavior),
         task_id |-> task_id,
         result_data |-> <<[type |-> feedback_request.criteria_types[i],
                            value |-> _generate_scores(feedback_request.ground_truth, down)]>>]]

\* variant: a request that is not in the cache is answered from the hotkey table
TaskResultOutcomeFromTable(task_id, behavior, fault, down) ==
    LET synapse == EmptyTaskResultRequest(task_id)
        unchanged == [ret |-> synapse, redis |-> redis]
        indexed == {h \in ValidatorHotkeys : hotkey_to_request[h].request_id = task_id}
        feedback_request == IF redis[RedisKey(task_id)] # NoRequest
                            THEN redis[RedisKey(task_id)]
                            ELSE hotkey_to_request[CHOOSE h \in indexed : TRUE]
    IN IF task_id = None THEN unchanged
       ELSE IF behavior \in {"no_response", "timeout"} THEN unchanged
       ELSE IF fault = "get" THEN unchanged
       ELSE IF redis[RedisKey(task_id)] = NoRequest /\ indexed = {} THEN unchanged
       ELSE LET answered == [synapse EXCEPT !.task_results =
                                BuildTaskResults(feedback_request, task_id, behavior, down)]
            IN IF fault = "delete"
               THEN [ret |-> answered, redis |-> redis]
               ELSE [ret |-> answered, redis |-> [redis EXCEPT ![RedisKey(task_id)] = NoRequest]]

\* the result of forward_task_result_request: the returned synapse and the cache
TaskResultOutcome(task_id, behavior, fault, down) ==
    LET synapse == EmptyTaskResultRequest(task_id)
        unchanged == [ret |-> synapse, redis |-> redis]
    IN IF task_id = None THEN unchanged
       ELSE IF behavior \in {"no_response", "timeout"} THEN unchanged
       ELSE IF fault = "get" THEN unchanged
       ELSE IF redis[RedisKey(task_id)] = NoRequest THEN unchanged
       ELSE LET answered == [synapse EXCEPT !.task_results =
                                BuildTaskResults(redis[RedisKey(task_id)], task_id, behavior, down)]
            IN IF fault = "delete"
               THEN \* redis_client.delete raised after task_results was assigned
                    [ret |-> answered, redis |-> redis]
               ELSE [ret |-> answered, redis |-> [redis EXCEPT ![RedisKey(task_id)] = NoRequest]]

\* variant: every poll with a task id removes the cache entry
forward_task_result_request_drops_entry(task_id, behavior, fault, down) ==
    LET out == TaskResultOutcome(task_id, behavior, fault, down) IN
    /\ redis' = IF task_id = None THEN redis
                ELSE [redis EXCEPT ![RedisKey(task_id)] = NoRequest]
    /\ miner_ret' = out.ret
    /\ miner_op' = [name |-> "forward_task_result_request", id |-> task_id,
                    synapse |-> NoRequest, behavior |-> behavior, fault |-> fault]
    /\ nonEmptyCount' = IF task_id # None /\ out.ret.task_results # <<>>
                        THEN [nonEmptyCount EXCEPT ![task_id] = Sat(@)]
                        ELSE nonEmptyCount
    /\ UNCHANGED hotkey_to_request

forward_task_result_request(task_id, behavior, fault, down) ==
    LET out == TaskResultOutcome(task_id, behavior, fault, down) IN
    /\ redis' = out.redis
    /\ miner_ret' = out.ret
    /\ miner_op' = [name |-> "forward_task_result_request", id |-> task_id,
                    synapse |-> NoRequest, behavior |-> behavior, fault |-> fault]
    /\ nonEmptyCount' = IF task_id # None /\ out.ret.task_results # <<>>
                        THEN [nonEmptyCount EXCEPT ![task_id] = Sat(@)]
                        ELSE nonEmptyCount
    /\ UNCHANGED hotkey_to_request

\* the cache drops an entry when its 10 h TTL runs out
RedisExpire(id) ==
    /\ redis[RedisKey(id)] # NoRequest
    /\ redis' = [redis EXCEPT ![RedisKey(id)] = NoRequest]
    /\ miner_op' = [name |-> "expire", id |-> id, synapse |-> NoRequest,
                    behavior |-> None, fault |-> "none"]
    /\ UNCHANGED <<hotkey_to_request, miner_ret, nonEmptyCount>>


MinerInit ==
    /\ redis = [id \in RequestIds |-> NoRequest]
    /\ hotkey_to_request = [h \in ValidatorHotkeys |-> NoRequest]
    /\ miner_op = [name |-> "init", id |-> None, synapse |-> NoRequest,
                   behavior |-> None, fault |-> "none"]
    /\ miner_ret = NoRequest
    /\ nonEmptyCount = [id \in RequestIds |-> 0]

ForwardFeedbackRequest ==
    \E synapse \in FeedbackRequests, fault \in {"none", "set"} :
        forward_feedback_request(synapse, fault)

ForwardTaskResultRequest ==
    \E task_id \in RequestIds \cup {None}, behavior \in Behaviors,
       fault \in {"none", "get", "delete"}, down \in Jitters :
        forward_task_result_request(task_id, behavior, fault, down)

ExpireEntry == \E id \in RequestIds : RedisExpire(id)


\* ------------------------------------------------------------------------
\* Store and mappers
\* ------------------------------------------------------------------------
TaskIds == {"t1", "t2", "t3", "t4"}
MinerHotkeys == {"m1", "m2"}
Times == 0..MaxTime

TASK_DEADLINE == 1      \* dojo.TASK_DEADLINE, in clock ticks
SIX_HOURS == 2          \* timedelta(hours=6), in clock ticks

NoTask == [present |-> FALSE, expire_at |-> 0, is_processed |-> FALSE, created_at |-> 0]

EmptyDb ==
    [ValidatorTask |-> [t \in TaskIds |-> NoTask],
     Completion |-> {},
     GroundTruth |-> {},
     MinerResponse |-> {},
     MinerCompletion |-> {}]

StoredIds(d) == {t \in TaskIds : d.ValidatorTask[t].present}

\* a TaskSynapseObject as the validator hands it to save_task
TaskSynapse(task_id, expire_at, completions, ground_truth) ==
    [task_id |-> task_id, expire_at |-> expire_at,
     completion_responses |-> completions, ground_truth |-> ground_truth]

\* a miner's TaskSynapseObject: only the identity fields matter to the mapper
MinerSynapse(hotkey, coldkey, dojo_task_id) ==
    [miner_hotkey |-> hotkey, miner_coldkey |-> coldkey, dojo_task_id |-> dojo_task_id]

\* variant: the row is created already processed
map_task_synapse_object_to_validator_task_processed(synapse) ==
    [id |-> synapse.task_id,
     expire_at |-> synapse.expire_at,
     is_processed |-> TRUE,
     completions |-> {[validator_task_id |-> synapse.task_id,
                       model |-> synapse.completion_responses[i]] :
                           i \in 1..Len(synapse.completion_responses)},
     ground_truth |-> {[validator_task_id |-> synapse.task_id,
                        obfuscated_model_id |-> p[1],
                        real_model_id |-> p[1],
                        rank_id |-> p[2]] : p \in synapse.ground_truth}]

map_task_synapse_object_to_validator_task(synapse) ==
    [id |-> synapse.task_id,
     expire_at |-> synapse.expire_at,
     is_processed |-> FALSE,
     completions |-> {[validator_task_id |-> synapse.task_id,
                       model |-> synapse.completion_responses[i]] :
                           i \in 1..Len(synapse.completion_responses)},
     ground_truth |-> {[validator_task_id |-> synapse.task_id,
                        obfuscated_model_id |-> p[1],
                        real_model_id |-> p[1],
                        rank_id |-> p[2]] : p \in synapse.ground_truth}]

\* the mapper raises ValueError, not InvalidMinerResponse, on a missing field
map_task_synapse_object_to_miner_response(synapse, validator_task_id) ==
    IF synapse.miner_hotkey = None \/ synapse.miner_coldkey = None
    THEN [raised |-> "ValueError", data |-> {}]
    ELSE IF synapse.dojo_task_id = None
    THEN [raised |-> "ValueError", data |-> {}]
    ELSE [raised |-> None,
          data |-> {[validator_task_id |-> validator_task_id,
                     dojo_task_id |-> synapse.dojo_task_id,
                     hotkey |-> synapse.miner_hotkey,
                     coldkey |-> synapse.miner_coldkey]}]

\* ------------------------------------------------------------------------
\* ORM.save_task
\* ------------------------------------------------------------------------
\* variant: create behaves as an upsert, no unique check on the id
ValidatorTaskCreateUpsert(d, data) ==
    [raised |-> None,
     db |-> [d EXCEPT
               !.ValidatorTask[data.id] =
                   [present |-> TRUE, expire_at |-> data.expire_at,
                    is_processed |-> data.is_processed,
                    created_at |-> Cardinality(StoredIds(d)) + 1],
               !.Completion = @ \cup data.completions,
               !.GroundTruth = @ \cup data.ground_truth]]

\* tx.validatortask.create with its nested creates; the id is the primary key
ValidatorTaskCreate(d, data) ==
    IF d.ValidatorTask[data.id].present
    THEN [raised |-> "UniqueViolation", db |-> d]
    ELSE [raised |-> None,
          db |-> [d EXCEPT
                    !.ValidatorTask[data.id] =
                        [present |-> TRUE, expire_at |-> data.expire_at,
                         is_processed |-> data.is_processed,
                         created_at |-> Cardinality(StoredIds(d)) + 1],
                    !.Completion = @ \cup data.completions,
                    !.GroundTruth = @ \cup data.ground_truth]]

\* the loop over miner_responses: the first exception that the inner
\* "except InvalidMinerResponse" does not catch leaves the loop
RECURSIVE MapMinerResponses(_, _, _)
MapMinerResponses(miner_responses, i, task_id) ==
    IF i > Len(miner_responses) THEN [raised |-> None, valid |-> {}]
    ELSE LET m == map_task_synapse_object_to_miner_response(miner_responses[i], task_id)
             rest == MapMinerResponses(miner_responses, i + 1, task_id)
         IN IF m.raised = "InvalidMinerResponse" THEN rest
            ELSE IF m.raised # None THEN [raised |-> m.raised, valid |-> {}]
            ELSE [raised |-> rest.raised, valid |-> m.data \cup rest.valid]

\* the body of the "async with prisma.tx" block: the tables as the
\* transaction sees them when the block is left, and the exception if any
SaveTaskBody(d, validator_task, miner_responses, fault) ==
    LET data == map_task_synapse_object_to_validator_task(validator_task)
        created == ValidatorTaskCreate(d, data)
    IN IF fault = "create" THEN [raised |-> "PrismaError", db |-> d]
       ELSE IF created.raised # None THEN created
       ELSE LET mapped == MapMinerResponses(miner_responses, 1, data.id)
            IN IF mapped.raised # None THEN [raised |-> mapped.raised, db |-> created.db]
               ELSE IF mapped.valid # {} /\ fault = "create_many"
               THEN [raised |-> "PrismaError", db |-> created.db]
               ELSE IF fault = "commit"
               THEN [raised |-> "PrismaError",
                     db |-> [created.db EXCEPT !.MinerResponse = @ \cup mapped.valid]]
               ELSE [raised |-> None,
                     db |-> [created.db EXCEPT !.MinerResponse = @ \cup mapped.valid]]

\* variant: the writes made before the exception stay
TransactionWithoutRollback(before, body) == body.db

\* prisma.tx: the block's writes are committed when it is left normally and
\* rolled back when it is left by an exception
Transaction(before, body) == IF body.raised # None THEN before ELSE body.db

SaveFaults == {"none", "create", "create_many", "commit"}

\* variant: the GroundTruth rows are made from the ground_truth argument
save_task_stores_argument(validator_task, miner_responses, ground_truth, fault) ==
    LET body == SaveTaskBody(db, [validator_task EXCEPT !.ground_truth = ground_truth],
                             miner_responses, fault) IN
    /\ db' = Transaction(db, body)
    /\ orm_op' = "save_task"
    /\ orm_arg' = [task_id |-> validator_task.task_id, miner_responses |-> miner_responses,
                   fault |-> fault, fresh |-> ~db.ValidatorTask[validator_task.task_id].present]
    /\ orm_ret' = IF body.raised # None
                  THEN [kind |-> "None", ids |-> <<>>, n |-> 0, has_more |-> FALSE]
                  ELSE [kind |-> "task", ids |-> <<validator_task.task_id>>, n |-> 0,
                        has_more |-> FALSE]
    /\ UNCHANGED <<gen, marked>>

save_task(validator_task, miner_responses, ground_truth, fault) ==
    LET body == SaveTaskBody(db, validator_task, miner_responses, fault) IN
    /\ db' = Transaction(db, body)
    /\ orm_op' = "save_task"
    /\ orm_arg' = [task_id |-> validator_task.task_id, miner_responses |-> miner_responses,
                   fault |-> fault, fresh |-> ~db.ValidatorTask[validator_task.task_id].present]
    /\ orm_ret' = IF body.raised # None
                  THEN [kind |-> "None", ids |-> <<>>, n |-> 0, has_more |-> FALSE]
                  ELSE [kind |-> "task", ids |-> <<validator_task.task_id>>, n |-> 0,
                        has_more |-> FALSE]
    /\ UNCHANGED <<gen, marked>>

\* ------------------------------------------------------------------------
\* ORM.get_expired_tasks
\* ------------------------------------------------------------------------
NoTime == -1            \* an omitted expire_from / expire_to argument (None)
BatchSizes == {1, 2}

Min(a, b) == IF a < b THEN a ELSE b

\* variant: the where clause without "is_processed": False
MatchesAnyProcessed(row, expire_from, expire_to) ==
    /\ row.present
    /\ row.expire_at > expire_from
    /\ row.expire_at < expire_to

\* vali_where_query_unprocessed: both bounds exclusive, unprocessed only
Matches(row, expire_from, expire_to) ==
    /\ row.present
    /\ row.expire_at > expire_from
    /\ row.expire_at < expire_to
    /\ row.is_processed = FALSE

Matching(d, expire_from, expire_to) ==
    {t \in TaskIds : Matches(d.ValidatorTask[t], expire_from, expire_to)}

\* variant: oldest first
RECURSIVE OrderByCreatedAtAsc(_, _)
OrderByCreatedAtAsc(d, ids) ==
    IF ids = {} THEN <<>>
    ELSE LET oldest == CHOOSE t \in ids :
                 \A u \in ids : d.ValidatorTask[t].created_at <= d.ValidatorTask[u].created_at
         IN <<oldest>> \o OrderByCreatedAtAsc(d, ids \ {oldest})

\* order = {"created_at": "desc"}
RECURSIVE OrderByCreatedAtDesc(_, _)
OrderByCreatedAtDesc(d, ids) ==
    IF ids = {} THEN <<>>
    ELSE LET newest == CHOOSE t \in ids :
                 \A u \in ids : d.ValidatorTask[u].created_at <= d.ValidatorTask[t].created_at
         IN <<newest>> \o OrderByCreatedAtDesc(d, ids \ {newest})

\* variant: every page is the first page
FindManyIgnoresSkip(d, expire_from, expire_to, skip, take) ==
    LET all == OrderByCreatedAtDesc(d, Matching(d, expire_from, expire_to))
    IN SubSeq(all, 1, Min(take, Len(all)))

\* ValidatorTask.prisma().find_many(where, order, skip, take)
FindMany(d, expire_from, expire_to, skip, take) ==
    LET all == OrderByCreatedAtDesc(d, Matching(d, expire_from, expire_to))
    IN SubSeq(all, skip + 1, Min(skip + take, Len(all)))

\* variant: the count ignores is_processed
CountAnyProcessed(d, expire_from, expire_to) ==
    Cardinality({t \in TaskIds : /\ d.ValidatorTask[t].present
                                  /\ d.ValidatorTask[t].expire_at > expire_from
                                  /\ d.ValidatorTask[t].expire_at < expire_to})

\* ValidatorTask.prisma().count(where)
Count(d, expire_from, expire_to) == Cardinality(Matching(d, expire_from, expire_to))

DefaultExpireFrom(expire_from, now) ==
    IF expire_from = NoTime THEN now - TASK_DEADLINE - SIX_HOURS ELSE expire_from

DefaultExpireTo(expire_to, now) ==
    IF expire_to = NoTime THEN now - TASK_DEADLINE ELSE expire_to

NoArg == [task_id |-> None, miner_responses |-> <<>>, fault |-> "none", fresh |-> FALSE]

IdleGen == [pc |-> "idle", expire_from |-> 0, expire_to |-> 0, batch_size |-> 0,
            count |-> 0, skip |-> 0]

Raised(exc) == [kind |-> exc, ids |-> <<>>, n |-> 0, has_more |-> FALSE]
Yielded(batch, has_more) == [kind |-> "batch", ids |-> batch, n |-> 0, has_more |-> has_more]
Returned(n) == [kind |-> "returned", ids |-> <<>>, n |-> n, has_more |-> FALSE]

\* variant: the window is checked after the first store queries
get_expired_tasks_queries_first(batch_size, expire_from_arg, expire_to_arg, now, fault) ==
    LET expire_from == DefaultExpireFrom(expire_from_arg, now)
        expire_to == DefaultExpireTo(expire_to_arg, now)
        task_count_unprocessed == Count(db, expire_from, expire_to)
        first_batch == FindMany(db, expire_from, expire_to, 0, batch_size)
    IN
    /\ orm_op' = "get_expired_tasks"
    /\ orm_arg' = NoArg
    /\ UNCHANGED <<db, marked>>
    /\ IF fault
       THEN orm_ret' = Raised("PrismaError") /\ gen' = IdleGen
       ELSE IF expire_from > expire_to
       THEN orm_ret' = Raised("ExpiredFromMoreThanExpireTo") /\ gen' = IdleGen
       ELSE IF task_count_unprocessed = 0
       THEN orm_ret' = Raised("NoNewExpiredTasksYet") /\ gen' = IdleGen
       ELSE /\ orm_ret' = Yielded(first_batch, task_count_unprocessed > batch_size)
            /\ gen' = [pc |-> "yielded", expire_from |-> expire_from, expire_to |-> expire_to,
                       batch_size |-> batch_size, count |-> task_count_unprocessed, skip |-> 0]

\* the call up to its first yield (or the exception that ends it)
get_expired_tasks(batch_size, expire_from_arg, expire_to_arg, now, fault) ==
    LET expire_from == DefaultExpireFrom(expire_from_arg, now)
        expire_to == DefaultExpireTo(expire_to_arg, now)
        task_count_unprocessed == Count(db, expire_from, expire_to)
        first_batch == FindMany(db, expire_from, expire_to, 0, batch_size)
    IN
    /\ orm_op' = "get_expired_tasks"
    /\ orm_arg' = NoArg
    /\ UNCHANGED <<db, marked>>
    /\ IF expire_from > expire_to
       THEN orm_ret' = Raised("ExpiredFromMoreThanExpireTo") /\ gen' = IdleGen
       ELSE IF fault
       THEN orm_ret' = Raised("PrismaError") /\ gen' = IdleGen
       ELSE IF task_count_unprocessed = 0
       THEN orm_ret' = Raised("NoNewExpiredTasksYet") /\ gen' = IdleGen
       ELSE /\ orm_ret' = Yielded(first_batch, task_count_unprocessed > batch_size)
            /\ gen' = [pc |-> "yielded", expire_from |-> expire_from, expire_to |-> expire_to,
                       batch_size |-> batch_size, count |-> task_count_unprocessed, skip |-> 0]

\* variant: has_more is computed with <= instead of <
get_expired_tasks_next_off_by_one(fault) ==
    LET skip == gen.skip + gen.batch_size IN
    /\ gen.pc = "yielded"
    /\ orm_op' = "get_expired_tasks_next"
    /\ orm_arg' = NoArg
    /\ UNCHANGED <<db, marked>>
    /\ IF skip >= gen.count
       THEN orm_ret' = Raised("StopAsyncIteration") /\ gen' = IdleGen
       ELSE IF fault
       THEN orm_ret' = Raised("PrismaError") /\ gen' = IdleGen
       ELSE /\ orm_ret' = Yielded(FindMany(db, gen.expire_from, gen.expire_to, skip, gen.batch_size),
                                  (skip + gen.batch_size) <= gen.count)
            /\ gen' = [gen EXCEPT !.skip = skip]

\* the consumer asks for the next batch: one more turn of
\* "for skip in range(batch_size, task_count_unprocessed, batch_size)"
get_expired_tasks_next(fault) ==
    LET skip == gen.skip + gen.batch_size IN
    /\ gen.pc = "yielded"
    /\ orm_op' = "get_expired_tasks_next"
    /\ orm_arg' = NoArg
    /\ UNCHANGED <<db, marked>>
    /\ IF skip >= gen.count
       THEN orm_ret' = Raised("StopAsyncIteration") /\ gen' = IdleGen
       ELSE IF fault
       THEN orm_ret' = Raised("PrismaError") /\ gen' = IdleGen
       ELSE /\ orm_ret' = Yielded(FindMany(db, gen.expire_from, gen.expire_to, skip, gen.batch_size),
                                  (skip + gen.batch_size) < gen.count)
            /\ gen' = [gen EXCEPT !.skip = skip]

\* ------------------------------------------------------------------------
\* ORM.mark_validator_task_as_processed, get_real_model_ids,
\* get_num_processed_tasks
\* ------------------------------------------------------------------------
\* variant: update_many without the where clause
UpdateManyProcessedEverywhere(d, validator_task_ids) ==
    [d EXCEPT !.ValidatorTask =
        [t \in TaskIds |-> IF @[t].present THEN [@[t] EXCEPT !.is_processed = TRUE] ELSE @[t]]]

\* tx.validatortask.update_many(data={"is_processed": True}, where={"id": {"in": ids}})
UpdateManyProcessed(d, validator_task_ids) ==
    [d EXCEPT !.ValidatorTask =
        [t \in TaskIds |->
            IF @[t].present /\ t \in validator_task_ids
            THEN [@[t] EXCEPT !.is_processed = TRUE]
            ELSE @[t]]]

NumUpdated(d, validator_task_ids) == Cardinality(StoredIds(d) \cap validator_task_ids)

\* the tables after the call and what the caller gets: an empty list
\* returns at once, and both except clauses only log
MarkResult(d, validator_task_ids, fault) ==
    IF validator_task_ids = {} THEN [db |-> d, ret |-> Returned(0), done |-> FALSE]
    ELSE LET body == IF fault
                     THEN [raised |-> "PrismaError", db |-> d]
                     ELSE [raised |-> None, db |-> UpdateManyProcessed(d, validator_task_ids)]
         IN [db |-> Transaction(d, body),
             ret |-> IF fault THEN Returned(0) ELSE Returned(NumUpdated(d, validator_task_ids)),
             done |-> ~fault]

mark_validator_task_as_processed(validator_task_ids, fault) ==
    LET out == MarkResult(db, validator_task_ids, fault) IN
    /\ db' = out.db
    /\ orm_op' = "mark_validator_task_as_processed"
    /\ orm_ret' = out.ret
    /\ marked' = IF out.done THEN marked \cup (StoredIds(db) \cap validator_task_ids) ELSE marked
    /\ orm_arg' = NoArg
    /\ UNCHANGED gen

RealModelIds(d, validator_task_id) ==
    {<<gt.obfuscated_model_id, gt.real_model_id>> :
        gt \in {g \in d.GroundTruth : g.validator_task_id = validator_task_id}}

\* the dict a call returns
ReturnedMap(m) ==
    [kind |-> "map", ids |-> <<>>, n |-> Cardinality(m), has_more |-> FALSE, map |-> m]

get_real_model_ids(validator_task_id, fault) ==
    /\ orm_op' = "get_real_model_ids"
    /\ orm_ret' = IF fault THEN Raised("PrismaError")
                  ELSE ReturnedMap(RealModelIds(db, validator_task_id))
    /\ orm_arg' = NoArg
    /\ UNCHANGED <<db, gen, marked>>

NumProcessed(d) == Cardinality({t \in StoredIds(d) : d.ValidatorTask[t].is_processed})

get_num_processed_tasks(fault) ==
    /\ orm_op' = "get_num_processed_tasks"
    /\ orm_ret' = IF fault THEN Raised("PrismaError") ELSE Returned(NumProcessed(db))
    /\ orm_arg' = NoArg
    /\ UNCHANGED <<db, gen, marked>>

\* ------------------------------------------------------------------------
\* The ORM called in any order
\* ------------------------------------------------------------------------
GT == {<<"A", 1>>, <<"B", 2>>}

OkMiner(h) == MinerSynapse(h, "c", "d")

\* the miner-response lists of the save_task calls
MinerLists ==
    {<<>>,
     <<OkMiner("m1")>>,
     <<OkMiner("m1"), OkMiner("m2")>>,
     <<OkMiner("m1"), MinerSynapse(None, "c", "d")>>,
     <<MinerSynapse("m1", None, "d"), OkMiner("m2")>>,
     <<OkMiner("m1"), MinerSynapse("m2", "c", None)>>}

ExpireTimes == {1, 2}
OrmIds == {"t1", "t2", "t3"}               \* the task ids of the calls
Nows == {MaxTime}                          \* the clock readings of the calls
ExpireFromArgs == {NoTime, 0, 1, MaxTime}
ExpireToArgs == {NoTime, 2, MaxTime}

OrmInit ==
    /\ db = EmptyDb
    /\ orm_op = "init"
    /\ orm_arg = NoArg
    /\ orm_ret = Returned(0)
    /\ gen = IdleGen
    /\ marked = {}

SaveTask ==
    \E task_id \in OrmIds, expire_at \in ExpireTimes, fault \in {"none", "create"} :
        save_task(TaskSynapse(task_id, expire_at, <<"A", "B">>, GT), <<OkMiner("m1")>>, GT, fault)

GetExpiredTasks ==
    \E batch_size \in BatchSizes, expire_from \in ExpireFromArgs, expire_to \in ExpireToArgs,
       now \in Nows, fault \in BOOLEAN :
        get_expired_tasks(batch_size, expire_from, expire_to, now, fault)

GetExpiredTasksNext == \E fault \in BOOLEAN : get_expired_tasks_next(fault)

MarkProcessed ==
    \E ids \in SUBSET OrmIds, fault \in BOOLEAN : mark_validator_task_as_processed(ids, fault)

GetRealModelIds == \E id \in OrmIds, fault \in BOOLEAN : get_real_model_ids(id, fault)

GetNumProcessedTasks == \E fault \in BOOLEAN : get_num_processed_tasks(fault)

\* ------------------------------------------------------------------------
\* DojoTaskTracker._calculate_averages
\* ------------------------------------------------------------------------
RECURSIVE SumPairs(_)
SumPairs(pairs) ==
    IF pairs = {} THEN 0
    ELSE LET p == CHOOSE q \in pairs : TRUE IN p[2] + SumPairs(pairs \ {p})

RECURSIVE Flatten(_)
Flatten(task_results) ==
    IF task_results = <<>> THEN <<>>
    ELSE Head(task_results).result_data \o Flatten(Tail(task_results))

\* variant: no fallback to the reported id
RealWithoutFallback(obfuscated_to_real_model_id, model_id) ==
    Get(obfuscated_to_real_model_id, model_id, None)

Real(obfuscated_to_real_model_id, model_id) == Get(obfuscated_to_real_model_id, model_id, model_id)

\* the accumulated sum of one real model id over the result_data of one type
RECURSIVE Accumulate(_, _, _)
Accumulate(data, real_model_id, obfuscated_to_real_model_id) ==
    IF data = <<>> THEN 0
    ELSE SumPairs({p \in Head(data).value :
                      Real(obfuscated_to_real_model_id, p[1]) = real_model_id})
         + Accumulate(Tail(data), real_model_id, obfuscated_to_real_model_id)

\* variant: every result counts in the denominator, whatever its type
AveragesOfTypeCountsAll(task_results, obfuscated_to_real_model_id, type) ==
    LET OfType(result_data) == result_data.type = type
        data == SelectSeq(Flatten(task_results), OfType)
        ids == UNION {{Real(obfuscated_to_real_model_id, p[1]) : p \in data[i].value} :
                          i \in 1..Len(data)}
    IN {<<m, [sum |-> Accumulate(data, m, obfuscated_to_real_model_id),
              n |-> Len(Flatten(task_results))]>> : m \in ids}

\* an average is kept as the pair sum / n of the float division
AveragesOfType(task_results, obfuscated_to_real_model_id, type) ==
    LET OfType(result_data) == result_data.type = type
        data == SelectSeq(Flatten(task_results), OfType)
        ids == UNION {{Real(obfuscated_to_real_model_id, p[1]) : p \in data[i].value} :
                          i \in 1..Len(data)}
    IN {<<m, [sum |-> Accumulate(data, m, obfuscated_to_real_model_id), n |-> Len(data)]>> :
            m \in ids}

_calculate_averages(task_results, obfuscated_to_real_model_id) ==
    [model_id_to_avg_rank |->
        AveragesOfType(task_results, obfuscated_to_real_model_id, "RANKING_CRITERIA"),
     model_id_to_avg_score |->
        AveragesOfType(task_results, obfuscated_to_real_model_id, "MULTI_SCORE")]

\* ------------------------------------------------------------------------
\* The ORM operations the monitor calls
\* ------------------------------------------------------------------------
MONITOR_BATCH_SIZE == 1     \* batch_size=10 of the monitor, scaled to the task ids of the model

NoAvg == [sum |-> 0, n |-> 0]       \* CompletionResponse.score = None
NoRank == -1                        \* CompletionResponse.rank_id = None

\* ORM.get_unexpired_tasks: the unprocessed tasks with expire_at > clock,
\* newest first, paged like get_expired_tasks
Unexpired(d, t) == {id \in StoredIds(d) : d.ValidatorTask[id].expire_at > t}

UnexpiredUnprocessed(d, t) == {id \in Unexpired(d, t) : ~d.ValidatorTask[id].is_processed}

FindManyUnexpired(d, t, skip, take) ==
    LET all == OrderByCreatedAtDesc(d, UnexpiredUnprocessed(d, t))
    IN SubSeq(all, skip + 1, Min(skip + take, Len(all)))

\* the miner responses of a fetched task, in the order they were inserted
HotkeySeq == <<"m1", "m2">>

MinerRowsOf(d, task_id) == {r \in d.MinerResponse : r.validator_task_id = task_id}

MinerResponsesOf(d, task_id) ==
    LET Stored(h) == h \in {r.hotkey : r \in MinerRowsOf(d, task_id)}
    IN SelectSeq(HotkeySeq, Stored)

MinerRow(d, task_id, hotkey) == CHOOSE r \in MinerRowsOf(d, task_id) : r.hotkey = hotkey

\* the completion_responses of the fetched miner responses of a task
CompletionResponsesOf(d, task_id) ==
    {[hotkey |-> h, model |-> c.model,
      score |-> IF \E r \in d.MinerCompletion :
                      r.validator_task_id = task_id /\ r.hotkey = h /\ r.model = c.model
                THEN (CHOOSE r \in d.MinerCompletion :
                      r.validator_task_id = task_id /\ r.hotkey = h /\ r.model = c.model).score
                ELSE NoAvg,
      rank_id |-> IF \E r \in d.MinerCompletion :
                      r.validator_task_id = task_id /\ r.hotkey = h /\ r.model = c.model
                  THEN (CHOOSE r \in d.MinerCompletion :
                      r.validator_task_id = task_id /\ r.hotkey = h /\ r.model = c.model).rank_id
                  ELSE NoRank] :
        h \in Range(MinerResponsesOf(d, task_id)),
        c \in {x \in d.Completion : x.validator_task_id = task_id}}

\* ORM.update_miner_completions_by_request_id: one transaction that deletes
\* the completion rows of the request's miners and recreates them
UpdateMinerCompletions(d, request_id, completion_responses) ==
    [d EXCEPT !.MinerCompletion =
        {r \in @ : ~(r.validator_task_id = request_id
                     /\ r.hotkey \in {c.hotkey : c \in completion_responses})}
        \cup {[validator_task_id |-> request_id, hotkey |-> c.hotkey, model |-> c.model,
               score |-> c.score, rank_id |-> c.rank_id] : c \in completion_responses}]

\* ------------------------------------------------------------------------
\* DojoTaskTracker.monitor_task_completions
\* ------------------------------------------------------------------------
ScoreValue(a, b) == {<<"A", a>>, <<"B", b>>}

TaskResultOf(type, value) == [result_data |-> <<[type |-> type, value |-> value]>>]

\* what a miner can answer to a TaskResultRequest
MinerAnswers ==
    {<<>>,
     <<TaskResultOf("MULTI_SCORE", ScoreValue(90, 50))>>,
     <<TaskResultOf("MULTI_SCORE", ScoreValue(80, 60)),
       TaskResultOf("RANKING_CRITERIA", ScoreValue(1, 2))>>}

IdleMon(pc) ==
    [pc |-> pc, batch |-> <<>>, has_more |-> FALSE, task |-> 0, miner |-> 0,
     count |-> 0, skip |-> 0, query_now |-> 0, completion_responses |-> {},
     polled |-> {},       \* history: <<hotkey, task_results>> of the polls of the current task
     failed |-> FALSE,    \* history: an update of the current task failed
     error |-> FALSE]     \* history: the iteration was ended by a caught exception

\* except Exception: the exception is logged and the iteration is over
Caught == [IdleMon("sleep") EXCEPT !.error = TRUE]

MonitorInit ==
    /\ mon = IdleMon("startup")
    /\ _should_exit = FALSE
    /\ clock = 0

\* await asyncio.sleep(dojo.DOJO_TASK_MONITORING)
MonitorStartup ==
    /\ mon.pc = "startup"
    /\ mon' = IdleMon("loop")
    /\ UNCHANGED <<_should_exit, clock, ormVars>>

\* variant: the loop condition is not tested
MonitorLoopTestIgnoresFlag ==
    /\ mon.pc = "loop"
    /\ mon' = IdleMon("stream")
    /\ UNCHANGED <<_should_exit, clock, ormVars>>

\* while not cls._should_exit
MonitorLoopTest ==
    /\ mon.pc = "loop"
    /\ mon' = IF _should_exit THEN IdleMon("exited") ELSE IdleMon("stream")
    /\ UNCHANGED <<_should_exit, clock, ormVars>>

\* the body of "async for task_batch, has_more_batches" for one yielded batch
EnterBatch(m, task_batch, has_more_batches) ==
    IF ~has_more_batches THEN IdleMon("sleep")
    ELSE IF task_batch = <<>> THEN [m EXCEPT !.pc = "next_batch"]
    ELSE [m EXCEPT !.pc = "task", !.batch = task_batch, !.has_more = has_more_batches,
                   !.task = 1, !.miner = 0]

\* ORM.get_unexpired_tasks(...) up to its first yield
MonitorStream(fault) ==
    LET count == Cardinality(UnexpiredUnprocessed(db, clock))
        opened == [mon EXCEPT !.count = count, !.skip = 0, !.query_now = clock]
    IN
    /\ mon.pc = "stream"
    /\ mon' = IF fault \/ count = 0
              THEN \* PrismaError, NoNewUnexpiredTasksYet or UnexpiredTasksAlreadyProcessed
                   Caught
              ELSE EnterBatch(opened, FindManyUnexpired(db, clock, 0, MONITOR_BATCH_SIZE),
                              count > MONITOR_BATCH_SIZE)
    /\ UNCHANGED <<_should_exit, clock, ormVars>>

\* the generator is resumed for the next batch
MonitorNextBatch(fault) ==
    LET skip == mon.skip + MONITOR_BATCH_SIZE IN
    /\ mon.pc = "next_batch"
    /\ mon' = IF fault THEN Caught
              ELSE IF skip >= mon.count THEN IdleMon("sleep")
              ELSE EnterBatch([mon EXCEPT !.skip = skip],
                              FindManyUnexpired(db, mon.query_now, skip, MONITOR_BATCH_SIZE),
                              (skip + MONITOR_BATCH_SIZE) < mon.count)
    /\ UNCHANGED <<_should_exit, clock, ormVars>>

\* variant: an exception of get_real_model_ids leaves the coroutine
MonitorTaskUncaught(fault) ==
    /\ mon.pc = "task"
    /\ mon' = IF fault THEN IdleMon("exited")
              ELSE IF mon.task > Len(mon.batch) THEN [mon EXCEPT !.pc = "next_batch"]
              ELSE [mon EXCEPT !.pc = "miner", !.miner = 1,
                               !.completion_responses =
                                   CompletionResponsesOf(db, mon.batch[mon.task])]
    /\ UNCHANGED <<_should_exit, clock, ormVars>>

\* for task in task_batch: await ORM.get_real_model_ids(request_id)
MonitorTask(fault) ==
    /\ mon.pc = "task"
    /\ mon' = IF fault THEN Caught
              ELSE IF mon.task > Len(mon.batch) THEN [mon EXCEPT !.pc = "next_batch"]
              ELSE [mon EXCEPT !.pc = "miner", !.miner = 1,
                               !.completion_responses =
                                   CompletionResponsesOf(db, mon.batch[mon.task])]
    /\ UNCHANGED <<_should_exit, clock, ormVars>>

\* the in-memory completions of one miner after the averages were applied
ApplyAverages(completion_responses, hotkey, averages) ==
    {IF c.hotkey # hotkey THEN c
     ELSE [c EXCEPT
             !.rank_id = IF c.model \in Keys(averages.model_id_to_avg_rank)
                         THEN LET a == Get(averages.model_id_to_avg_rank, c.model, NoAvg)
                              IN a.sum \div a.n
                         ELSE @,
             !.score = IF c.model \in Keys(averages.model_id_to_avg_score)
                       THEN Get(averages.model_id_to_avg_score, c.model, NoAvg)
                       ELSE @] :
        c \in completion_responses}

\* for miner_response in miner_responses: poll the miner, average, persist
MonitorPoll(task_results, fault) ==
    LET request_id == mon.batch[mon.task]
        miner_responses == MinerResponsesOf(db, request_id)
        averages == _calculate_averages(task_results, RealModelIds(db, request_id))
        updated == ApplyAverages(mon.completion_responses, miner_responses[mon.miner], averages)
        body == IF fault THEN [raised |-> "PrismaError", db |-> db]
                ELSE [raised |-> None, db |-> UpdateMinerCompletions(db, request_id, updated)]
    IN
    /\ mon.pc = "miner"
    /\ IF mon.miner > Len(miner_responses)
       THEN /\ mon' = [mon EXCEPT !.pc = "task", !.task = @ + 1, !.miner = 0,
                                  !.completion_responses = {}, !.polled = {},
                                  !.failed = FALSE]
            /\ UNCHANGED db
       ELSE IF \/ MinerRow(db, request_id, miner_responses[mon.miner]).hotkey = None
               \/ MinerRow(db, request_id, miner_responses[mon.miner]).dojo_task_id = None
       THEN \* raise InvalidMinerResponse: caught by the except of the outer loop
            /\ mon' = Caught
            /\ UNCHANGED db
       ELSE IF task_results = <<>>
       THEN /\ mon' = [mon EXCEPT !.miner = @ + 1,
                                  !.polled = @ \cup {<<miner_responses[mon.miner], task_results>>}]
            /\ UNCHANGED db
       ELSE /\ mon' = [mon EXCEPT !.miner = @ + 1, !.completion_responses = updated,
                                  !.polled = @ \cup {<<miner_responses[mon.miner], task_results>>},
                                  !.failed = @ \/ fault]
            /\ db' = Transaction(db, body)
    /\ UNCHANGED <<_should_exit, clock, orm_op, orm_arg, orm_ret, gen, marked>>

\* await asyncio.sleep(SLEEP_SECONDS)
MonitorSleep ==
    /\ mon.pc = "sleep"
    /\ mon' = IdleMon("loop")
    /\ UNCHANGED <<_should_exit, clock, ormVars>>

\* the monitor when every store call succeeds
MonitorStepNoFault ==
    \/ MonitorStartup
    \/ MonitorLoopTest
    \/ MonitorStream(FALSE)
    \/ MonitorNextBatch(FALSE)
    \/ MonitorTask(FALSE)
    \/ \E task_results \in MinerAnswers : MonitorPoll(task_results, FALSE)
    \/ MonitorSleep

\* ------------------------------------------------------------------------
\* The validator around the monitor
\* ------------------------------------------------------------------------
\* the task ids the validator saves under
SaveIds == {"t1", "t2"}

\* the validator saves a new task
ValidatorSaves ==
    /\ \E task_id \in SaveIds, expire_at \in ExpireTimes,
          miner_responses \in {<<OkMiner("m1")>>, <<OkMiner("m1"), OkMiner("m2")>>} :
           /\ expire_at > clock
           /\ save_task(TaskSynapse(task_id, expire_at, <<"A", "B">>, GT), miner_responses, GT, "none")
    /\ UNCHANGED monVars

\* the validator's scoring pass marks tasks that get_expired_tasks yields
\* with its default window
ValidatorMarks ==
    /\ \E ids \in SUBSET Matching(db, DefaultExpireFrom(NoTime, clock), DefaultExpireTo(NoTime, clock)) :
           /\ ids # {}
           /\ mark_validator_task_as_processed(ids, FALSE)
    /\ UNCHANGED monVars

\* the validator asks the monitor to stop
RequestExit ==
    /\ ~_should_exit
    /\ _should_exit' = TRUE
    /\ UNCHANGED <<mon, clock, ormVars>>

Tick ==
    /\ clock < MaxTime
    /\ clock' = clock + 1
    /\ UNCHANGED <<mon, _should_exit, ormVars>>

\* ------------------------------------------------------------------------
\* Legacy store and DataManager (commons/data_manager.py)
\* ------------------------------------------------------------------------
\* the names bound in the module data_manager.py: its imports and its classes
DataManagerGlobals ==
    {"json", "List", "torch", "logger", "StrEnum",
     "InvalidCompletion", "InvalidMinerResponse", "InvalidTask", "transaction",
     "map_child_feedback_request_to_model", "map_completion_response_to_model",
     "map_criteria_type_to_model", "map_parent_feedback_request_to_model",
     "Json", "Feedback_Request_Model", "Score_Model",
     "Score_ModelCreateInput", "Score_ModelUpdateInput",
     "FeedbackRequest", "RidToHotKeyToTaskId", "RidToModelMap", "TaskExpiryDict",
     "ValidatorStateKeys", "DataManager"}

\* looking a global name up: an unbound one raises NameError
NameIsBound(name) == name \in DataManagerGlobals

EmptyLegacy == [miner_response_model |-> {}, completion_response_model |-> {}]

MinerResponseRow(id, request_id, hotkey) ==
    [id |-> id, request_id |-> request_id, hotkey |-> hotkey]

CompletionRow(id, miner_response_id, model, score) ==
    [id |-> id, miner_response_id |-> miner_response_id, model |-> model, score |-> score]

\* what the tables may hold when the validator starts
PriorStores ==
    {EmptyLegacy,
     [miner_response_model |-> {MinerResponseRow(1, "r1", "m1")},
      completion_response_model |-> {CompletionRow(1, 1, "A", 50)}],
     [miner_response_model |-> {MinerResponseRow(1, "r1", "m1"),
                                MinerResponseRow(2, "r1", "m2"),
                                MinerResponseRow(3, "r2", "m1")},
      completion_response_model |-> {CompletionRow(1, 1, "A", 50),
                                     CompletionRow(2, 2, "A", 60),
                                     CompletionRow(3, 2, "B", 40),
                                     CompletionRow(4, 3, "A", 10)}]}

\* a miner's FeedbackRequest as overwrite_miner_responses_by_request_id reads it
ScoredResponse(hotkey, completion_responses) ==
    [hotkey |-> hotkey, completion_responses |-> completion_responses]

ScoredCompletion(model, score) == [model |-> model, score |-> score]

OverwriteArgs ==
    {<<>>,
     <<ScoredResponse("m1", <<ScoredCompletion("A", 50)>>)>>,
     <<ScoredResponse("m1", <<ScoredCompletion("A", 70)>>)>>,
     <<ScoredResponse("m1", <<ScoredCompletion("A", 70)>>),
       ScoredResponse("m2", <<ScoredCompletion("A", 60), ScoredCompletion("B", 40)>>)>>}

IdleTx ==
    [pc |-> "idle", request_id |-> None, miner_responses |-> <<>>,
     prior |-> EmptyLegacy, work |-> EmptyLegacy, i |-> 1,
     fault |-> FALSE, ret |-> FALSE]

NoRead ==
    [request_id |-> None, rows |-> EmptyLegacy, during |-> "idle", ret |-> FALSE,
     call_request_id |-> None, prior |-> EmptyLegacy, miner_responses |-> <<>>]

DmInit == dm_db = EmptyLegacy /\ dm_tx = IdleTx /\ dm_reader = NoRead

\* the rows of one request: its miner responses and their completions
RowsOfRequest(d, request_id) ==
    LET mine == {r \in d.miner_response_model : r.request_id = request_id}
    IN  [miner_response_model |-> mine,
         completion_response_model |->
             {c \in d.completion_response_model :
                 \E r \in mine : r.id = c.miner_response_id}]

\* the store as a statement outside the open transaction reads it: the
\* transaction's writes are not visible before it commits
Visible(d, t) == d

\* delete_many(where={"miner_response": {"is": {"request_id": request_id}}})
DeleteCompletionsOf(d, request_id) ==
    [d EXCEPT !.completion_response_model =
        @ \ RowsOfRequest(d, request_id).completion_response_model]

\* delete_many(where={"request_id": request_id})
DeleteMinerResponsesOf(d, request_id) ==
    [d EXCEPT !.miner_response_model = {r \in @ : r.request_id # request_id}]

RECURSIVE MaxOf(_)
MaxOf(S) ==
    IF S = {} THEN 0
    ELSE LET x == CHOOSE y \in S : TRUE
             m == MaxOf(S \ {x})
         IN  IF x > m THEN x ELSE m

\* the key the store gives a created row
FreshId(rows) == MaxOf({r.id : r \in rows}) + 1

\* tx.miner_response_model.create and, for each of the response's
\* completions, tx.completion_response_model.create
CreateMinerResponse(d, request_id, miner_response) ==
    LET id == FreshId(d.miner_response_model)
        base == FreshId(d.completion_response_model)
        cs == miner_response.completion_responses
    IN  [miner_response_model |->
             d.miner_response_model
                 \cup {MinerResponseRow(id, request_id, miner_response.hotkey)},
         completion_response_model |->
             d.completion_response_model
                 \cup {CompletionRow(base + k - 1, id, cs[k].model, cs[k].score) :
                          k \in 1..Len(cs)}]

\* the call enters "async with transaction() as tx"
overwrite_miner_responses_by_request_id(request_id, miner_responses) ==
    /\ dm_tx.pc \in {"idle", "returned"}
    /\ dm_tx' = [pc |-> "delete_completions", request_id |-> request_id,
                 miner_responses |-> miner_responses,
                 prior |-> dm_db, work |-> dm_db, i |-> 1,
                 fault |-> FALSE, ret |-> FALSE]
    /\ UNCHANGED <<dm_db, dm_reader>>

OverwriteDeleteCompletions(fault) ==
    /\ dm_tx.pc = "delete_completions"
    /\ dm_tx' = IF fault
                THEN [dm_tx EXCEPT !.pc = "raised", !.fault = TRUE]
                ELSE [dm_tx EXCEPT !.pc = "delete_miner_responses",
                                   !.work = DeleteCompletionsOf(@, dm_tx.request_id)]
    /\ UNCHANGED <<dm_db, dm_reader>>

OverwriteDeleteMinerResponses(fault) ==
    /\ dm_tx.pc = "delete_miner_responses"
    /\ dm_tx' = IF fault
                THEN [dm_tx EXCEPT !.pc = "raised", !.fault = TRUE]
                ELSE [dm_tx EXCEPT !.pc = "create",
                                   !.work = DeleteMinerResponsesOf(@, dm_tx.request_id)]
    /\ UNCHANGED <<dm_db, dm_reader>>

\* one turn of "for miner_response in miner_responses"
OverwriteCreate(fault) ==
    /\ dm_tx.pc = "create"
    /\ dm_tx.i <= Len(dm_tx.miner_responses)
    /\ dm_tx' = IF ~NameIsBound("map_miner_response_to_model")
                THEN [dm_tx EXCEPT !.pc = "raised"]
                ELSE IF fault
                THEN [dm_tx EXCEPT !.pc = "raised", !.fault = TRUE]
                ELSE [dm_tx EXCEPT !.i = @ + 1,
                                   !.work = CreateMinerResponse(@, dm_tx.request_id,
                                                dm_tx.miner_responses[dm_tx.i])]
    /\ UNCHANGED <<dm_db, dm_reader>>

\* the block is left normally: the transaction commits, the call returns True
OverwriteCommit ==
    /\ dm_tx.pc = "create"
    /\ dm_tx.i > Len(dm_tx.miner_responses)
    /\ dm_db' = dm_tx.work
    /\ dm_tx' = [dm_tx EXCEPT !.pc = "returned", !.ret = TRUE]
    /\ UNCHANGED dm_reader

\* an exception leaves the block and keeps the block's writes
OverwriteRollbackKeepsWrites ==
    /\ dm_tx.pc = "raised"
    /\ dm_db' = dm_tx.work
    /\ dm_tx' = [dm_tx EXCEPT !.pc = "returned", !.ret = FALSE]
    /\ UNCHANGED dm_reader

\* an exception leaves the block: the transaction rolls back, "except
\* Exception" catches it and the call returns False
OverwriteRollback ==
    /\ dm_tx.pc = "raised"
    /\ dm_db' = dm_db
    /\ dm_tx' = [dm_tx EXCEPT !.pc = "returned", !.ret = FALSE]
    /\ UNCHANGED dm_reader

\* another coroutine reads one request's rows while the call is at any position
ReadRequest(request_id) ==
    /\ dm_reader' = [request_id |-> request_id,
                     rows |-> RowsOfRequest(Visible(dm_db, dm_tx), request_id),
                     during |-> dm_tx.pc, ret |-> dm_tx.ret,
                     call_request_id |-> dm_tx.request_id,
                     prior |-> dm_tx.prior,
                     miner_responses |-> dm_tx.miner_responses]
    /\ UNCHANGED <<dm_db, dm_tx>>

\* ------------------------------------------------------------------------
\* Worker-platform client (commons/human_feedback/dojo.py)
\* ------------------------------------------------------------------------
MAX_RETRIES == 5
BASE_DELAY == 1

NoDelay == -1                       \* no asyncio.sleep between two attempts

\* random.uniform(0, 1): the two ends of the interval, in seconds
DelayJitters == {0, 1}

RECURSIVE Pow2(_)
Pow2(n) == IF n = 0 THEN 1 ELSE 2 * Pow2(n - 1)

\* what the platform answers to one request: sent is false when the request
\* itself fails (httpx.RequestError), json is false when the body is not JSON,
\* task_results is the taskResults field of the body
HttpResponse(sent, status, json, task_results) ==
    [sent |-> sent, status |-> status, json |-> json, task_results |-> task_results]

PostResponses ==
    {HttpResponse(FALSE, 0, FALSE, "absent"),
     HttpResponse(TRUE, 200, TRUE, "absent"),
     HttpResponse(TRUE, 200, FALSE, "absent"),
     HttpResponse(TRUE, 201, TRUE, "absent"),
     HttpResponse(TRUE, 500, TRUE, "absent"),
     HttpResponse(TRUE, 500, FALSE, "absent")}

GetResponses ==
    {HttpResponse(FALSE, 0, FALSE, "absent"),
     HttpResponse(TRUE, 500, TRUE, "absent"),
     HttpResponse(TRUE, 200, FALSE, "absent"),
     HttpResponse(TRUE, 200, TRUE, "absent"),
     HttpResponse(TRUE, 200, TRUE, "empty"),
     HttpResponse(TRUE, 200, TRUE, "nonempty")}

\* response.raise_for_status()
raise_for_status(response) == IF response.status >= 400 THEN "HTTPStatusError" ELSE None

\* the exception that ends the try block of one create_task attempt, if any
CreateTaskRaises(response) ==
    IF ~response.sent THEN "RequestError"
    ELSE IF ~response.json THEN "JSONDecodeError"
    ELSE IF response.status = 200 THEN None
    ELSE raise_for_status(response)

\* the exception that ends the try block of one get_task_results attempt
GetTaskResultsRaises(response) ==
    IF ~response.sent THEN "RequestError"
    ELSE IF raise_for_status(response) # None THEN raise_for_status(response)
    ELSE IF ~response.json THEN "JSONDecodeError"
    ELSE None

ApiCall(fn) == [fn |-> fn, attempt |-> 0, responses |-> <<>>, delays |-> <<>>]

ApiCalls == {ApiCall("create_task"), ApiCall("get_task_results_by_task_id")}

Returns(value) == [done |-> TRUE, raised |-> None, value |-> value]
Raises(exception) == [done |-> TRUE, raised |-> exception, value |-> None]

\* the call after one more attempt and the sleep, if any, that followed it
Attempted(c, response, delay) ==
    [c EXCEPT !.attempt = @ + 1,
              !.responses = Append(@, response),
              !.delays = Append(@, delay)]

\* variant: the exception of the last attempt is raised as it is
create_task_attempt_reraises(response, jitter) ==
    LET attempt == call.attempt
        raised == CreateTaskRaises(response)
    IN
    /\ call.fn = "create_task"
    /\ ~result.done
    /\ attempt < MAX_RETRIES
    /\ IF raised # None
       THEN IF attempt < MAX_RETRIES - 1
            THEN /\ call' = Attempted(call, response, BASE_DELAY * Pow2(attempt) + jitter)
                 /\ UNCHANGED result
            ELSE /\ call' = Attempted(call, response, NoDelay)
                 /\ result' = Raises(raised)
       ELSE IF response.status = 200
       THEN /\ call' = Attempted(call, response, NoDelay)
            /\ result' = Returns("task_ids")
       ELSE /\ call' = Attempted(call, response, NoDelay)
            /\ result' = IF attempt + 1 < MAX_RETRIES THEN result
                         ELSE Raises("CreateTaskFailed")

\* one turn of "for attempt in range(cls.MAX_RETRIES)" of create_task
create_task_attempt(response, jitter) ==
    LET attempt == call.attempt
        raised == CreateTaskRaises(response)
    IN
    /\ call.fn = "create_task"
    /\ ~result.done
    /\ attempt < MAX_RETRIES
    /\ IF raised # None
       THEN \* except Exception
            IF attempt < MAX_RETRIES - 1
            THEN /\ call' = Attempted(call, response, BASE_DELAY * Pow2(attempt) + jitter)
                 /\ UNCHANGED result
            ELSE /\ call' = Attempted(call, response, NoDelay)
                 /\ result' = Raises("CreateTaskFailed")
       ELSE IF response.status = 200
       THEN /\ call' = Attempted(call, response, NoDelay)
            /\ result' = Returns("task_ids")
       ELSE \* a status other than 200 that raise_for_status lets pass: the
            \* try block ends and the loop goes on; after the last turn the
            \* statement behind the loop raises
            /\ call' = Attempted(call, response, NoDelay)
            /\ result' = IF attempt + 1 < MAX_RETRIES THEN result
                         ELSE Raises("CreateTaskFailed")

\* variant: an empty or missing taskResults is retried like a failure
get_task_results_attempt_retries_empty(response, jitter) ==
    LET attempt == call.attempt
        raised == IF GetTaskResultsRaises(response) = None
                     /\ response.task_results # "nonempty"
                  THEN "Empty" ELSE GetTaskResultsRaises(response)
    IN
    /\ call.fn = "get_task_results_by_task_id"
    /\ ~result.done
    /\ attempt < MAX_RETRIES
    /\ IF raised # None
       THEN IF attempt < MAX_RETRIES - 1
            THEN /\ call' = Attempted(call, response, BASE_DELAY * Pow2(attempt) + jitter)
                 /\ UNCHANGED result
            ELSE /\ call' = Attempted(call, response, NoDelay)
                 /\ result' = Returns(None)
       ELSE /\ call' = Attempted(call, response, NoDelay)
            /\ result' = Returns("task_results")

\* one turn of "for attempt in range(max_retries)" of get_task_results_by_task_id
get_task_results_attempt(response, jitter) ==
    LET attempt == call.attempt
        raised == GetTaskResultsRaises(response)
    IN
    /\ call.fn = "get_task_results_by_task_id"
    /\ ~result.done
    /\ attempt < MAX_RETRIES
    /\ IF raised # None
       THEN \* except Exception
            IF attempt < MAX_RETRIES - 1
            THEN /\ call' = Attempted(call, response, BASE_DELAY * Pow2(attempt) + jitter)
                 /\ UNCHANGED result
            ELSE /\ call' = Attempted(call, response, NoDelay)
                 /\ result' = Returns(None)
       ELSE /\ call' = Attempted(call, response, NoDelay)
            /\ result' = IF response.task_results = "nonempty"
                         THEN Returns("task_results")
                         ELSE Returns(None)

\* ------------------------------------------------------------------------
\* Criteria mappers
\* ------------------------------------------------------------------------
\* an absent min or max (Python None)
NoBound == NoTime

\* dojo.protocol criteria: the class of the object and its fields
ScoreCriteria(min, max) ==
    [class |-> "ScoreCriteria", min |-> min, max |-> max, options |-> <<>>]
MultiSelectCriteria(options) ==
    [class |-> "MultiSelectCriteria", min |-> NoBound, max |-> NoBound, options |-> options]
RankingCriteria(options) ==
    [class |-> "RankingCriteria", min |-> NoBound, max |-> NoBound, options |-> options]
MultiScoreCriteria(options, min, max) ==
    [class |-> "MultiScoreCriteria", min |-> min, max |-> max, options |-> options]

\* json.dumps and json.loads: the stored text is not the value itself
JsonDumps(v) == [json |-> v]
JsonLoads(text) == text.json

_map_criteria_type_to_enum(criteria) ==
    IF criteria.class = "ScoreCriteria" THEN [raised |-> None, enum |-> "SCORE"]
    ELSE IF criteria.class = "MultiSelectCriteria"
    THEN [raised |-> None, enum |-> "MULTI_SELECT"]
    ELSE [raised |-> "ValueError", enum |-> None]

\* the config dict: the keys it has and their values
_get_criteria_config(criteria) ==
    IF criteria.class = "ScoreCriteria"
    THEN [keys |-> {"min", "max"}, min |-> criteria.min, max |-> criteria.max,
          options |-> <<>>]
    ELSE IF criteria.class = "MultiSelectCriteria"
    THEN [keys |-> {"options"}, min |-> NoBound, max |-> NoBound,
          options |-> criteria.options]
    ELSE [keys |-> {}, min |-> NoBound, max |-> NoBound, options |-> <<>>]

\* the list comprehension over resp.criteria_types: the first criterion that
\* has no enum value raises out of the mapper
RECURSIVE MapCriteria(_, _)
MapCriteria(criteria_types, i) ==
    IF i > Len(criteria_types) THEN [raised |-> None, criterion |-> <<>>]
    ELSE LET e == _map_criteria_type_to_enum(criteria_types[i])
             rest == MapCriteria(criteria_types, i + 1)
         IN IF e.raised # None THEN [raised |-> e.raised, criterion |-> <<>>]
            ELSE IF rest.raised # None THEN rest
            ELSE [raised |-> None,
                  criterion |->
                      <<[criteria_type |-> e.enum,
                         config |-> JsonDumps(_get_criteria_config(criteria_types[i]))]>>
                          \o rest.criterion]

\* map_task_synapse_object_to_validator_task with the task type and the
\* criteria of its completions; synapse.criteria_types[i] belongs to
\* synapse.completion_responses[i]
RECURSIVE MapCompletions(_, _)
MapCompletions(synapse, i) ==
    IF i > Len(synapse.completion_responses) THEN [raised |-> None, completions |-> <<>>]
    ELSE LET c == MapCriteria(synapse.criteria_types[i], 1)
             rest == MapCompletions(synapse, i + 1)
         IN IF c.raised # None THEN [raised |-> c.raised, completions |-> <<>>]
            ELSE IF rest.raised # None THEN rest
            ELSE [raised |-> None,
                  completions |->
                      <<[validator_task_id |-> synapse.task_id,
                         model |-> synapse.completion_responses[i],
                         criterion |-> c.criterion]>> \o rest.completions]

ValidatorTaskCreateInput(synapse) ==
    LET m == MapCompletions(synapse, 1) IN
    IF m.raised # None
    THEN [raised |-> m.raised, task_type |-> None, completions |-> <<>>,
          row |-> map_task_synapse_object_to_validator_task(synapse)]
    ELSE [raised |-> None, task_type |-> synapse.task_type,
          completions |-> m.completions,
          row |-> map_task_synapse_object_to_validator_task(synapse)]

\* Criteria_Type_ModelCreateInput of the legacy schema
map_criteria_type_to_model(criteria, feedback_request_id) ==
    IF criteria.class = "RankingCriteria"
    THEN [type |-> "RANKING_CRITERIA", feedback_request_id |-> feedback_request_id,
          min |-> NoBound, max |-> NoBound, options |-> JsonDumps(criteria.options)]
    ELSE IF criteria.class = "ScoreCriteria"
    THEN [type |-> "SCORE", feedback_request_id |-> feedback_request_id,
          min |-> criteria.min, max |-> criteria.max, options |-> JsonDumps(<<>>)]
    ELSE IF criteria.class = "MultiSelectCriteria"
    THEN [type |-> "MULTI_SELECT", feedback_request_id |-> feedback_request_id,
          min |-> NoBound, max |-> NoBound, options |-> JsonDumps(criteria.options)]
    ELSE [type |-> "MULTI_SCORE", feedback_request_id |-> feedback_request_id,
          min |-> criteria.min, max |-> criteria.max,
          options |-> JsonDumps(criteria.options)]

\* "x if x is not None else 0.0"
OrZero(x) == IF x = NoBound THEN 0 ELSE x

map_criteria_type_model_to_criteria_type(model) ==
    IF model.type = "RANKING_CRITERIA" THEN RankingCriteria(JsonLoads(model.options))
    ELSE IF model.type = "SCORE" THEN ScoreCriteria(OrZero(model.min), OrZero(model.max))
    ELSE IF model.type = "MULTI_SELECT" THEN MultiSelectCriteria(JsonLoads(model.options))
    ELSE MultiScoreCriteria(JsonLoads(model.options), OrZero(model.min), OrZero(model.max))

\* ------------------------------------------------------------------------
\* DataManager.save_task (commons/data_manager.py), the legacy tables
\* ------------------------------------------------------------------------
\* the three tables save_task writes
EmptyFeedbackStore ==
    [feedback_request_model |-> {}, criteria_type_model |-> {},
     completion_response_model |-> {}]

\* map_parent_feedback_request_to_model: the validator's hotkey and an
\* expire_at in the future are required
map_parent_feedback_request_to_model(request, now) ==
    IF request.hotkey = None THEN [raised |-> "InvalidValidatorRequest", data |-> NoRequest]
    ELSE IF request.expire_at = NoTime
    THEN [raised |-> "InvalidValidatorRequest", data |-> NoRequest]
    ELSE IF request.expire_at < now
    THEN [raised |-> "InvalidValidatorRequest", data |-> NoRequest]
    ELSE [raised |-> None,
          data |-> [request_id |-> request.request_id, hotkey |-> request.hotkey,
                    expire_at |-> request.expire_at, dojo_task_id |-> None,
                    parent_id |-> 0]]

\* variant: a response without dojo_task_id is mapped all the same
MapChildWithoutTaskIdCheck(request, parent_id, expire_at) ==
    IF request.hotkey = None THEN [raised |-> "InvalidMinerResponse", data |-> NoRequest]
    ELSE [raised |-> None,
          data |-> [request_id |-> request.request_id, hotkey |-> request.hotkey,
                    expire_at |-> expire_at, dojo_task_id |-> request.dojo_task_id,
                    parent_id |-> parent_id]]

map_child_feedback_request_to_model(request, parent_id, expire_at) ==
    IF request.hotkey = None THEN [raised |-> "InvalidMinerResponse", data |-> NoRequest]
    ELSE IF parent_id = 0 THEN [raised |-> "InvalidMinerResponse", data |-> NoRequest]
    ELSE IF request.dojo_task_id = None
    THEN [raised |-> "InvalidMinerResponse", data |-> NoRequest]
    ELSE [raised |-> None,
          data |-> [request_id |-> request.request_id, hotkey |-> request.hotkey,
                    expire_at |-> expire_at, dojo_task_id |-> request.dojo_task_id,
                    parent_id |-> parent_id]]

\* tx.feedback_request_model.create: the row with the key the store gives it
CreateFeedbackRequest(d, data) ==
    LET id == FreshId(d.feedback_request_model) IN
    [id |-> id,
     db |-> [d EXCEPT !.feedback_request_model =
                @ \cup {[id |-> id, request_id |-> data.request_id, hotkey |-> data.hotkey,
                         expire_at |-> data.expire_at, dojo_task_id |-> data.dojo_task_id,
                         parent_id |-> data.parent_id]}]]

\* "for completion in miner_response.completion_responses": one row each
CreateCompletions(d, completion_responses, feedback_request_id) ==
    [d EXCEPT !.completion_response_model =
        @ \cup {[feedback_request_id |-> feedback_request_id,
                 model |-> completion_responses[k]] : k \in 1..Len(completion_responses)}]

\* "for miner_response in miner_responses": InvalidMinerResponse is caught
\* and the response skipped, any other exception leaves the loop; created
\* is the number of miner models created
RECURSIVE SaveMinerResponses(_, _, _, _, _)
SaveMinerResponses(d, miner_responses, i, parent, fault) ==
    IF i > Len(miner_responses) THEN [raised |-> None, db |-> d, created |-> 0]
    ELSE LET m == map_child_feedback_request_to_model(miner_responses[i], parent.id,
                                                      parent.expire_at)
         IN IF m.raised = "InvalidMinerResponse"
            THEN SaveMinerResponses(d, miner_responses, i + 1, parent, fault)
            ELSE IF fault = "create_miner"
            THEN [raised |-> "PrismaError", db |-> d, created |-> 0]
            ELSE LET child == CreateFeedbackRequest(d, m.data)
                     rest == SaveMinerResponses(
                                 CreateCompletions(child.db,
                                     miner_responses[i].completion_responses, child.id),
                                 miner_responses, i + 1, parent, fault)
                 IN [raised |-> rest.raised, db |-> rest.db, created |-> rest.created + 1]

\* the body of "async with transaction() as tx": the tables as the
\* transaction sees them when the block is left, and the exception if any
DataManagerSaveTaskBody(d, validator_request, miner_responses, now, fault) ==
    LET p == map_parent_feedback_request_to_model(validator_request, now) IN
    IF p.raised # None THEN [raised |-> p.raised, db |-> d, id |-> 0]
    ELSE LET parent == CreateFeedbackRequest(d, p.data)
             criteria == [parent.db EXCEPT !.criteria_type_model =
                            @ \cup {map_criteria_type_to_model(
                                        validator_request.criteria_types[k], parent.id) :
                                            k \in 1..Len(validator_request.criteria_types)}]
             miners == SaveMinerResponses(criteria, miner_responses, 1,
                                          [id |-> parent.id, expire_at |-> p.data.expire_at],
                                          fault)
         IN IF miners.raised # None
            THEN [raised |-> miners.raised, db |-> miners.db, id |-> 0]
            ELSE IF miners.created = 0
            THEN [raised |-> "InvalidTask", db |-> miners.db, id |-> 0]
            ELSE IF fault = "commit"
            THEN [raised |-> "PrismaError", db |-> miners.db, id |-> 0]
            ELSE [raised |-> None, db |-> miners.db, id |-> parent.id]

\* database.client.transaction: the block's writes are committed when it is
\* left normally and rolled back when an exception leaves it
FeedbackTransaction(before, body) == IF body.raised # None THEN before ELSE body.db

\* DataManager.save_task: "except Exception" logs and returns None (id 0)
DataManagerSaveTask(validator_request, miner_responses, now, fault) ==
    LET body == DataManagerSaveTaskBody(dm_db, validator_request, miner_responses, now, fault)
    IN
    /\ dm_db' = FeedbackTransaction(dm_db, body)
    /\ result' = [done |-> TRUE, value |-> IF body.raised # None THEN 0 ELSE body.id]
    /\ call' = [fn |-> "DataManager.save_task", validator_request |-> validator_request,
                miner_responses |-> miner_responses, now |-> now, fault |-> fault,
                prior |-> dm_db]
    /\ UNCHANGED <<dm_tx, dm_reader>>

\* ------------------------------------------------------------------------
\* Specifications
\* ------------------------------------------------------------------------
NoCall == [fn |-> None]
NoResult == [done |-> FALSE]

FnInit == call = NoCall /\ result = NoResult

Init == MinerInit /\ OrmInit /\ MonitorInit /\ FnInit /\ DmInit

Next ==
    \/ SaveTask /\ UNCHANGED <<minerVars, monVars, fnVars, dmVars>>
    \/ GetExpiredTasks /\ UNCHANGED <<minerVars, monVars, fnVars, dmVars>>
    \/ GetExpiredTasksNext /\ UNCHANGED <<minerVars, monVars, fnVars, dmVars>>
    \/ MarkProcessed /\ UNCHANGED <<minerVars, monVars, fnVars, dmVars>>
    \/ GetRealModelIds /\ UNCHANGED <<minerVars, monVars, fnVars, dmVars>>
    \/ GetNumProcessedTasks /\ UNCHANGED <<minerVars, monVars, fnVars, dmVars>>

Spec == Init /\ [][Next]_vars

\* save_task alone, with every kind of miner list and store fault
SaveTaskAny ==
    \E task_id \in SaveIds, expire_at \in {1}, ground_truth \in {EmptyMap, GT},
       miner_responses \in MinerLists, fault \in SaveFaults :
        save_task(TaskSynapse(task_id, expire_at, <<"A", "B">>, ground_truth),
                  miner_responses, GT, fault)

SaveNext == SaveTaskAny /\ UNCHANGED <<minerVars, monVars, fnVars, dmVars>>

SpecSave == Init /\ [][SaveNext]_vars

\* ------------------------------------------------------------------------
\* The miner on its own
\* ------------------------------------------------------------------------
MinerNext ==
    \/ ForwardFeedbackRequest /\ UNCHANGED <<ormVars, monVars, fnVars, dmVars>>
    \/ ForwardTaskResultRequest /\ UNCHANGED <<ormVars, monVars, fnVars, dmVars>>
    \/ ExpireEntry /\ UNCHANGED <<ormVars, monVars, fnVars, dmVars>>

SpecMiner == Init /\ [][MinerNext]_vars

\* the monitor next to the validator's saves and scoring passes
MonitorNext ==
    \/ MonitorStartup /\ UNCHANGED <<minerVars, fnVars, dmVars>>
    \/ MonitorLoopTest /\ UNCHANGED <<minerVars, fnVars, dmVars>>
    \/ (\E fault \in BOOLEAN : MonitorStream(fault)) /\ UNCHANGED <<minerVars, fnVars, dmVars>>
    \/ (\E fault \in BOOLEAN : MonitorNextBatch(fault)) /\ UNCHANGED <<minerVars, fnVars, dmVars>>
    \/ (\E fault \in BOOLEAN : MonitorTask(fault)) /\ UNCHANGED <<minerVars, fnVars, dmVars>>
    \/ (\E task_results \in MinerAnswers, fault \in BOOLEAN : MonitorPoll(task_results, fault))
           /\ UNCHANGED <<minerVars, fnVars, dmVars>>
    \/ MonitorSleep /\ UNCHANGED <<minerVars, fnVars, dmVars>>
    \/ ValidatorSaves /\ UNCHANGED <<minerVars, fnVars, dmVars>>
    \/ ValidatorMarks /\ UNCHANGED <<minerVars, fnVars, dmVars>>
    \/ RequestExit /\ UNCHANGED <<minerVars, fnVars, dmVars>>
    \/ Tick /\ UNCHANGED <<minerVars, fnVars, dmVars>>

SpecMonitor == Init /\ [][MonitorNext]_vars

\* the monitor keeps running and its store calls succeed
FairSpecMonitor ==
    Init /\ [][MonitorNext]_vars /\ WF_vars(MonitorStepNoFault /\ UNCHANGED <<minerVars, fnVars, dmVars>>)

\* ------------------------------------------------------------------------
\* get_expired_tasks iterated while tasks are saved and marked
\* ------------------------------------------------------------------------
ExpiredNow == MaxTime + 1                      \* the clock reading of the calls
ExpiredExpireAt == ExpiredNow - TASK_DEADLINE - 1     \* inside the default window
ExpiredFromArgs == {NoTime, ExpiredExpireAt - 1, ExpiredExpireAt}
ExpiredToArgs == {NoTime, 0, ExpiredExpireAt, ExpiredExpireAt + 1}

\* created_at of the last task of a batch, or what it was before
LastCreatedAt(d, batch, before) ==
    IF batch = <<>> THEN before ELSE d.ValidatorTask[batch[Len(batch)]].created_at

\* the validator saves its next task, under a fresh id
TaskSeq == <<"t1", "t2", "t3", "t4">>

ExpiredSave ==
    /\ Cardinality(StoredIds(db)) < Len(TaskSeq)
    /\ save_task(TaskSynapse(TaskSeq[Cardinality(StoredIds(db)) + 1], ExpiredExpireAt,
                             <<"A", "B">>, GT),
                 <<OkMiner("m1")>>, GT, "none")

\* the store as a fetch finds it, against the history c of the iteration:
\* the tasks that matched at the start and are processed by now
ProcessedOf(c) == {t \in c.start : db.ValidatorTask[t].is_processed}
Unmarked(c) == NumProcessed(db) = c.processed
Unchanged(c) == Unmarked(c) /\ Cardinality(StoredIds(db)) = c.stored
Consumed(c) == ProcessedOf(c) = Range(c.seen) /\ Cardinality(StoredIds(db)) = c.stored

ExpiredMark ==
    \E task_id \in StoredIds(db) : mark_validator_task_as_processed({task_id}, FALSE)

\* a call of the generator; call keeps its arguments and the history of
\* the iteration: the batches yielded, the created_at of the last task
\* yielded, the number of stored tasks at the last fetch, the tasks that
\* matched at the start, the ids yielded so far, and what happened to the
\* store between the fetches: nothing (quiet), no mark (unmarked), or
\* exactly the marking of every task yielded so far (consumed)
ExpiredGet ==
    \E batch_size \in BatchSizes, expire_from \in ExpiredFromArgs, expire_to \in ExpiredToArgs,
       now \in {ExpiredNow}, fault \in BOOLEAN :
        /\ get_expired_tasks(batch_size, expire_from, expire_to, now, fault)
        /\ call' = [fn |-> "get_expired_tasks", batch_size |-> batch_size,
                    expire_from |-> expire_from, expire_to |-> expire_to, now |-> now,
                    fault |-> fault,
                    yields |-> IF orm_ret'.kind = "batch" THEN 1 ELSE 0,
                    last |-> LastCreatedAt(db, orm_ret'.ids, 0),
                    stored |-> Cardinality(StoredIds(db)),
                    start |-> Matching(db, DefaultExpireFrom(expire_from, now),
                                       DefaultExpireTo(expire_to, now)),
                    seen |-> orm_ret'.ids, processed |-> NumProcessed(db),
                    quiet |-> TRUE, unmarked |-> TRUE, consumed |-> TRUE]

ExpiredGetNext ==
    \E fault \in BOOLEAN :
        /\ get_expired_tasks_next(fault)
        /\ call' = [call EXCEPT !.fault = fault,
                                !.yields = IF orm_ret'.kind = "batch" THEN @ + 1 ELSE @,
                                !.last = LastCreatedAt(db, orm_ret'.ids, @),
                                !.stored = Cardinality(StoredIds(db)),
                                !.seen = @ \o orm_ret'.ids,
                                !.quiet = @ /\ (orm_ret'.kind = "batch" => Unchanged(call)),
                                !.unmarked = @ /\ (orm_ret'.kind = "batch" => Unmarked(call)),
                                !.consumed = @ /\ (orm_ret'.kind = "batch" => Consumed(call))]

ExpiredNext ==
    \/ ExpiredSave /\ UNCHANGED <<minerVars, monVars, fnVars, dmVars>>
    \/ ExpiredMark /\ UNCHANGED <<minerVars, monVars, fnVars, dmVars>>
    \/ ExpiredGet /\ UNCHANGED <<minerVars, monVars, result, dmVars>>
    \/ ExpiredGetNext /\ UNCHANGED <<minerVars, monVars, result, dmVars>>

SpecExpired == Init /\ [][ExpiredNext]_vars

\* ------------------------------------------------------------------------
\* _calculate_averages on its own
\* ------------------------------------------------------------------------
\* the sequences of at most two elements of a set
UpToTwo(S) == {<<>>} \cup {<<a>> : a \in S} \cup {<<a, b>> : a \in S, b \in S}

\* Result.value: a dict from reported model id to rank or score
ReportedValues ==
    {{}, {<<"obf1", 3>>}, {<<"obf1", 3>>, <<"obf2", 5>>}, {<<"real1", 4>>}}

\* dojo.protocol.Result
Results ==
    {[type |-> t, value |-> v] : t \in {"RANKING_CRITERIA", "MULTI_SCORE"}, v \in ReportedValues}
    \cup {[type |-> "SCORE", value |-> {<<"obf1", 3>>}]}

\* dojo.protocol.TaskResult: the results of one worker
TaskResults == {[result_data |-> rd] : rd \in UpToTwo(Results)}

ObfuscationMaps == {{}, {<<"obf1", "real1">>}, {<<"obf1", "real1">>, <<"obf2", "real2">>}}

AverageCalls ==
    {[fn |-> "_calculate_averages", task_results |-> trs, obfuscated_to_real_model_id |-> m] :
        trs \in UpToTwo(TaskResults), m \in ObfuscationMaps}

InitAverages ==
    MinerInit /\ OrmInit /\ MonitorInit /\ DmInit /\ call \in AverageCalls /\ result = NoResult

CalculateAverages ==
    /\ call.fn = "_calculate_averages"
    /\ ~result.done
    /\ result' = [done |-> TRUE,
                  value |-> _calculate_averages(call.task_results,
                                                call.obfuscated_to_real_model_id)]
    /\ UNCHANGED <<call, minerVars, ormVars, monVars, dmVars>>

AveragesNext == CalculateAverages

SpecAverages == InitAverages /\ [][AveragesNext]_vars

\* the call runs to its end
FairSpecAverages == SpecAverages /\ WF_vars(AveragesNext)

\* The monitor over tables that already hold two tasks with two miner
\* responses each; a stored response may lack its dojo_task_id
WithoutDojoTaskId(d, task_id, hotkey) ==
    [d EXCEPT !.MinerResponse =
        {IF r.validator_task_id = task_id /\ r.hotkey = hotkey
         THEN [r EXCEPT !.dojo_task_id = None] ELSE r : r \in @}]

TwoTasksStored ==
    LET miners == <<OkMiner("m1"), OkMiner("m2")>>
        d1 == SaveTaskBody(EmptyDb, TaskSynapse("t1", 2, <<"A", "B">>, GT), miners, "none").db
    IN  SaveTaskBody(d1, TaskSynapse("t2", 2, <<"A", "B">>, GT), miners, "none").db

StoredRows ==
    {TwoTasksStored,
     WithoutDojoTaskId(TwoTasksStored, "t2", "m1"),
     WithoutDojoTaskId(TwoTasksStored, "t2", "m2")}

InitRows ==
    /\ MinerInit /\ MonitorInit /\ FnInit /\ DmInit
    /\ db \in StoredRows
    /\ orm_op = "init"
    /\ orm_arg = NoArg
    /\ orm_ret = Returned(0)
    /\ gen = IdleGen
    /\ marked = {}

RowsNext ==
    \/ MonitorStartup /\ UNCHANGED <<minerVars, fnVars, dmVars>>
    \/ MonitorLoopTest /\ UNCHANGED <<minerVars, fnVars, dmVars>>
    \/ (\E fault \in BOOLEAN : MonitorStream(fault)) /\ UNCHANGED <<minerVars, fnVars, dmVars>>
    \/ (\E fault \in BOOLEAN : MonitorNextBatch(fault)) /\ UNCHANGED <<minerVars, fnVars, dmVars>>
    \/ (\E fault \in BOOLEAN : MonitorTask(fault)) /\ UNCHANGED <<minerVars, fnVars, dmVars>>
    \/ (\E task_results \in MinerAnswers, fault \in BOOLEAN : MonitorPoll(task_results, fault))
           /\ UNCHANGED <<minerVars, fnVars, dmVars>>
    \/ MonitorSleep /\ UNCHANGED <<minerVars, fnVars, dmVars>>
    \/ RequestExit /\ UNCHANGED <<minerVars, fnVars, dmVars>>
    \/ Tick /\ UNCHANGED <<minerVars, fnVars, dmVars>>

SpecMonitorRows == InitRows /\ [][RowsNext]_vars

\* the same, when every call the monitor awaits returns
FairSpecMonitorRows ==
    InitRows /\ [][RowsNext]_vars
        /\ WF_vars(MonitorStepNoFault /\ UNCHANGED <<minerVars, fnVars, dmVars>>)

\* DojoAPI.create_task and DojoAPI.get_task_results_by_task_id, attempt by
\* attempt, against a platform that may answer each request in any way
InitApi ==
    MinerInit /\ OrmInit /\ MonitorInit /\ DmInit /\ call \in ApiCalls /\ result = NoResult

CreateTaskAttempt ==
    \E response \in PostResponses, jitter \in DelayJitters : create_task_attempt(response, jitter)

GetTaskResultsAttempt ==
    \E response \in GetResponses, jitter \in DelayJitters : get_task_results_attempt(response, jitter)

ApiNext ==
    \/ CreateTaskAttempt /\ UNCHANGED <<minerVars, ormVars, monVars, dmVars>>
    \/ GetTaskResultsAttempt /\ UNCHANGED <<minerVars, ormVars, monVars, dmVars>>

SpecApi == InitApi /\ [][ApiNext]_vars

\* MinerSim._generate_scores on any ground-truth map with ranks 1..10 and
\* any choice of the keys whose jitter is negative
GroundTruthRanks == 1..10

RankMaps ==
    {EmptyMap}
        \cup {{<<"A", v>>} : v \in GroundTruthRanks}
        \cup {{<<"A", v>>, <<"B", w>>} : v \in GroundTruthRanks, w \in GroundTruthRanks}

ScoreCalls ==
    {[fn |-> "_generate_scores", ground_truth |-> g, down |-> d] :
        g \in RankMaps, d \in SUBSET {"A", "B"}}

InitScores ==
    /\ MinerInit /\ OrmInit /\ MonitorInit /\ DmInit
    /\ call \in {c \in ScoreCalls : c.down \subseteq Keys(c.ground_truth)}
    /\ result = NoResult

GenerateScores ==
    /\ call.fn = "_generate_scores"
    /\ ~result.done
    /\ result' = [done |-> TRUE, value |-> _generate_scores(call.ground_truth, call.down)]
    /\ UNCHANGED <<call, minerVars, ormVars, monVars, dmVars>>

ScoresNext == GenerateScores

SpecScores == InitScores /\ [][ScoresNext]_vars

\* The mappers on their own: a task of every type whose completions carry
\* every combination of up to two criteria, and every single criterion
\* through the legacy pair of mappers
TaskTypes == {"CODE_GENERATION", "TEXT_TO_IMAGE", "TEXT_TO_THREE_D"}

Criteria ==
    {ScoreCriteria(1, 10), MultiSelectCriteria(<<"a", "b">>),
     RankingCriteria(<<"a", "b">>), MultiScoreCriteria(<<"a", "b">>, 1, 100)}

MapperCalls ==
    {[fn |-> "map_task_synapse_object_to_validator_task",
      synapse |-> [task_id |-> "t1", expire_at |-> 1, task_type |-> tt,
                   completion_responses |-> <<"A", "B">>,
                   ground_truth |-> {<<"A", 1>>, <<"B", 2>>},
                   criteria_types |-> <<ca, cb>>]] :
        tt \in TaskTypes, ca \in UpToTwo(Criteria), cb \in UpToTwo(Criteria)}
    \cup {[fn |-> "map_criteria_type_to_model", criteria |-> c] : c \in Criteria}

InitMappers ==
    MinerInit /\ OrmInit /\ MonitorInit /\ DmInit /\ call \in MapperCalls /\ result = NoResult

MapTask ==
    /\ call.fn = "map_task_synapse_object_to_validator_task"
    /\ ~result.done
    /\ result' = [done |-> TRUE, value |-> ValidatorTaskCreateInput(call.synapse)]
    /\ UNCHANGED <<call, minerVars, ormVars, monVars, dmVars>>

\* a criterion written with map_criteria_type_to_model and read back
MapCriterionAndBack ==
    /\ call.fn = "map_criteria_type_to_model"
    /\ ~result.done
    /\ result' = [done |-> TRUE,
                  value |-> map_criteria_type_model_to_criteria_type(
                                map_criteria_type_to_model(call.criteria, "t1"))]
    /\ UNCHANGED <<call, minerVars, ormVars, monVars, dmVars>>

MappersNext ==
    \/ MapTask
    \/ MapCriterionAndBack

SpecMappers == InitMappers /\ [][MappersNext]_vars

\* save_task with a ground_truth argument that may differ from the ground
\* truth of the synapse, and get_real_model_ids; call keeps, per task id,
\* the ground truth of the synapse and the argument of the save that
\* stored the task, and the task id of the last get_real_model_ids
RealIdsTasks == {"t1", "t2"}
RealIdsGroundTruths == {EmptyMap, GT, {<<"B", 1>>}}

InitRealIds ==
    /\ MinerInit /\ OrmInit /\ MonitorInit /\ DmInit
    /\ call = [fn |-> "get_real_model_ids", task_id |-> None,
               ground_truth |-> [t \in RealIdsTasks |-> EmptyMap],
               argument |-> [t \in RealIdsTasks |-> EmptyMap]]
    /\ result = NoResult

RealIdsSave ==
    \E task_id \in RealIdsTasks, ground_truth \in RealIdsGroundTruths,
       argument \in RealIdsGroundTruths, fault \in {"none", "commit"} :
        /\ save_task(TaskSynapse(task_id, 1, <<"A", "B">>, ground_truth),
                     <<OkMiner("m1")>>, argument, fault)
        /\ call' = IF orm_ret'.kind = "task"
                   THEN [call EXCEPT !.ground_truth[task_id] = ground_truth,
                                     !.argument[task_id] = argument]
                   ELSE call

RealIdsGet ==
    \E task_id \in RealIdsTasks, fault \in BOOLEAN :
        /\ get_real_model_ids(task_id, fault)
        /\ call' = [call EXCEPT !.task_id = task_id]

RealIdsNext ==
    \/ RealIdsSave /\ UNCHANGED <<minerVars, monVars, result, dmVars>>
    \/ RealIdsGet /\ UNCHANGED <<minerVars, monVars, result, dmVars>>

SpecRealIds == InitRealIds /\ [][RealIdsNext]_vars

\* DataManager.save_task called once, on empty tables or beside a task
\* stored before
FeedbackNow == 1

ValidatorRequests ==
    {[request_id |-> r, hotkey |-> h, expire_at |-> e, criteria_types |-> c] :
        r \in {"r1", "r2"}, h \in {"v1", None}, e \in {NoTime, 0, 2},
        c \in {<<>>, <<ScoreCriteria(1, 10), RankingCriteria(<<"a", "b">>)>>}}

\* a miner's FeedbackRequest: its axon hotkey and dojo_task_id may be missing
MinerFeedbackRequests ==
    {[request_id |-> "r1", hotkey |-> h, dojo_task_id |-> d, completion_responses |-> c] :
        h \in {"m1", "m2", None}, d \in {"d1", None}, c \in {<<"A", "B">>}}

FeedbackStores ==
    {EmptyFeedbackStore,
     FeedbackTransaction(EmptyFeedbackStore,
         DataManagerSaveTaskBody(EmptyFeedbackStore,
             [request_id |-> "r1", hotkey |-> "v1", expire_at |-> 2,
              criteria_types |-> <<ScoreCriteria(1, 10)>>],
             <<[request_id |-> "r1", hotkey |-> "m1", dojo_task_id |-> "d1",
                completion_responses |-> <<"A", "B">>]>>,
             FeedbackNow, "none"))}

InitFeedback ==
    /\ MinerInit /\ OrmInit /\ MonitorInit /\ FnInit
    /\ dm_db \in FeedbackStores
    /\ dm_tx = IdleTx
    /\ dm_reader = NoRead

SaveFeedbackTask ==
    /\ ~result.done
    /\ \E validator_request \in ValidatorRequests,
          miner_responses \in UpToTwo(MinerFeedbackRequests),
          fault \in {"none", "create_miner", "commit"} :
           DataManagerSaveTask(validator_request, miner_responses, FeedbackNow, fault)

FeedbackNext == SaveFeedbackTask /\ UNCHANGED <<minerVars, ormVars, monVars>>

SpecFeedback == InitFeedback /\ [][FeedbackNext]_vars

\* DataManager.overwrite_miner_responses_by_request_id, statement by
\* statement, over any prior contents of the tables, with a reader beside it
InitOverwrite ==
    /\ MinerInit /\ OrmInit /\ MonitorInit /\ FnInit
    /\ dm_db \in PriorStores
    /\ dm_tx = IdleTx
    /\ dm_reader = NoRead

OverwriteNext ==
    \/ (\E request_id \in RequestIds, miner_responses \in OverwriteArgs :
            overwrite_miner_responses_by_request_id(request_id, miner_responses))
           /\ UNCHANGED <<minerVars, ormVars, monVars, fnVars>>
    \/ (\E fault \in BOOLEAN : OverwriteDeleteCompletions(fault))
           /\ UNCHANGED <<minerVars, ormVars, monVars, fnVars>>
    \/ (\E fault \in BOOLEAN : OverwriteDeleteMinerResponses(fault))
           /\ UNCHANGED <<minerVars, ormVars, monVars, fnVars>>
    \/ (\E fault \in BOOLEAN : OverwriteCreate(fault))
           /\ UNCHANGED <<minerVars, ormVars, monVars, fnVars>>
    \/ OverwriteCommit /\ UNCHANGED <<minerVars, ormVars, monVars, fnVars>>
    \/ OverwriteRollback /\ UNCHANGED <<minerVars, ormVars, monVars, fnVars>>
    \/ (\E request_id \in RequestIds : ReadRequest(request_id))
           /\ UNCHANGED <<minerVars, ormVars, monVars, fnVars>>

SpecOverwrite == InitOverwrite /\ [][OverwriteNext]_vars

\* ------------------------------------------------------------------------
\* Properties of the simulated miner
\* ------------------------------------------------------------------------
\* C1: every forward_feedback_request returns a synapse whose ground_truth
\* is the empty map, whatever the input (missing hotkey, empty
\* completion_responses, a handler exception).
C1_GroundTruthAlwaysScrubbed ==
    miner_op.name = "forward_feedback_request" => miner_ret.ground_truth = EmptyMap

\* C2: between two accepted stores of a request id, at most one poll for
\* that id is answered with results, and once a poll was answered the cache
\* entry is gone.
C2_ConsumedExactlyOnce ==
    \A id \in RequestIds :
        /\ nonEmptyCount[id] <= 1
        /\ nonEmptyCount[id] >= 1 => redis[RedisKey(id)] = NoRequest

\* ------------------------------------------------------------------------
\* Properties of ORM.save_task
\* ------------------------------------------------------------------------
IsValidMiner(m) == m.miner_hotkey # None /\ m.miner_coldkey # None /\ m.dojo_task_id # None

ValidHotkeys(miner_responses) ==
    {miner_responses[i].miner_hotkey :
        i \in {j \in 1..Len(miner_responses) : IsValidMiner(miner_responses[j])}}

HasInvalidMiner(miner_responses) ==
    \E i \in 1..Len(miner_responses) : ~IsValidMiner(miner_responses[i])

StoredHotkeys(d, task_id) ==
    {r.hotkey : r \in {m \in d.MinerResponse : m.validator_task_id = task_id}}

RowsOf(d, task_id) ==
    [task |-> d.ValidatorTask[task_id],
     completions |-> {c \in d.Completion : c.validator_task_id = task_id},
     ground_truth |-> {g \in d.GroundTruth : g.validator_task_id = task_id},
     miner_responses |-> {m \in d.MinerResponse : m.validator_task_id = task_id}]

\* C3: save_task of a new task, without a store failure, given a miner list
\* with one response lacking hotkey, coldkey or dojo_task_id and the others
\* valid, returns the created task, stores the task row and stores a
\* MinerResponse row for exactly the valid miners.
C3_InvalidMinerSkipped ==
    (/\ orm_op = "save_task"
     /\ orm_arg.fresh
     /\ orm_arg.fault = "none"
     /\ HasInvalidMiner(orm_arg.miner_responses))
    => /\ orm_ret.kind = "task"
       /\ db.ValidatorTask[orm_arg.task_id].present
       /\ StoredHotkeys(db, orm_arg.task_id) = ValidHotkeys(orm_arg.miner_responses)

\* C4: save_task is all-or-nothing: a call that returns None leaves every
\* table as it was, and a call that returns a task has stored the task row,
\* its completions and a MinerResponse row for each valid miner.
C4_SaveTaskAllOrNothing ==
    [][orm_op' = "save_task" =>
        /\ orm_ret'.kind = "None" => db' = db
        /\ orm_ret'.kind = "task" =>
            /\ db'.ValidatorTask[orm_arg'.task_id].present
            /\ RowsOf(db', orm_arg'.task_id).completions # {}
            /\ StoredHotkeys(db', orm_arg'.task_id) = ValidHotkeys(orm_arg'.miner_responses)]_vars

C4_Witness ==
    /\ orm_op = "save_task"
    /\ orm_arg.fresh
    /\ orm_arg.fault = "create_many"
    /\ ValidHotkeys(orm_arg.miner_responses) # {}
    /\ orm_ret.kind = "None"
    /\ ~db.ValidatorTask[orm_arg.task_id].present

\* C5: a save_task with a task id that is already stored returns None and
\* leaves the store exactly as it was.
C5_SecondSaveFails ==
    [][(orm_op' = "save_task" /\ db.ValidatorTask[orm_arg'.task_id].present) =>
        (orm_ret'.kind = "None" /\ db' = db)]_vars

C5_Witness ==
    /\ orm_op = "save_task"
    /\ ~orm_arg.fresh
    /\ orm_arg.fault = "none"
    /\ orm_ret.kind = "None"
    /\ db.ValidatorTask[orm_arg.task_id].present

\* ------------------------------------------------------------------------
\* Properties of the processed flag
\* ------------------------------------------------------------------------
\* C6: a batch yielded by get_expired_tasks holds no task that a successful
\* mark_validator_task_as_processed covered before the batch was fetched.
C6_ProcessedNeverYielded ==
    orm_ret.kind = "batch" => Range(orm_ret.ids) \cap marked = {}

C6_Witness ==
    /\ orm_ret.kind = "batch"
    /\ \E t \in marked :
        /\ db.ValidatorTask[t].expire_at > gen.expire_from
        /\ db.ValidatorTask[t].expire_at < gen.expire_to

\* C7: a task row is created unprocessed, a stored row stays stored, a flag
\* that is true stays true, and only mark_validator_task_as_processed
\* changes the flag of a stored row.
C7_ProcessedMonotone ==
    [][\A t \in TaskIds :
        LET old == db.ValidatorTask[t]
            new == db'.ValidatorTask[t]
        IN /\ (~old.present /\ new.present) => ~new.is_processed
           /\ old.present => new.present
           /\ (old.present /\ old.is_processed) => new.is_processed
           /\ (old.present /\ new.is_processed # old.is_processed)
                  => orm_op' = "mark_validator_task_as_processed"]_vars

C7_Witness ==
    /\ orm_op = "save_task"
    /\ orm_ret.kind = "task"
    /\ \E t \in marked : t # orm_arg.task_id /\ db.ValidatorTask[t].is_processed

\* C8: for every id list, mark_validator_task_as_processed returns without
\* raising; it changes nothing but the is_processed flag of stored tasks in
\* the list, which a call that reaches the store sets to true; an empty list
\* or unknown ids change nothing; and a second call with the same list
\* leaves the store as the first call left it.
C8_MarkIdempotentAndFramed ==
    \A ids \in SUBSET TaskIds, fault \in BOOLEAN :
        LET once == MarkResult(db, ids, fault)
            twice == MarkResult(once.db, ids, FALSE)
        IN /\ once.ret.kind = "returned"
           /\ once.db.Completion = db.Completion
           /\ once.db.GroundTruth = db.GroundTruth
           /\ once.db.MinerResponse = db.MinerResponse
           /\ once.db.MinerCompletion = db.MinerCompletion
           /\ \A t \in TaskIds :
                /\ (t \notin ids \/ ~db.ValidatorTask[t].present)
                       => once.db.ValidatorTask[t] = db.ValidatorTask[t]
                /\ once.db.ValidatorTask[t] \in
                       {db.ValidatorTask[t], [db.ValidatorTask[t] EXCEPT !.is_processed = TRUE]}
                /\ (once.done /\ t \in ids /\ db.ValidatorTask[t].present)
                       => once.db.ValidatorTask[t].is_processed
           /\ (ids = {} \/ ids \cap StoredIds(db) = {}) => once.db = db
           /\ once.done => twice.db = once.db

C8_Witness ==
    /\ orm_op = "mark_validator_task_as_processed"
    /\ marked # {}
    /\ \E t \in StoredIds(db) : ~db.ValidatorTask[t].is_processed
    /\ StoredIds(db) # TaskIds

\* ------------------------------------------------------------------------
\* Properties of the monitor next to the validator
\* ------------------------------------------------------------------------
CompletionRowsOf(d, task_id) == {r \in d.MinerCompletion : r.validator_task_id = task_id}

C11_ScoreIsMeanOverMiners ==
    LET request_id == mon.batch[mon.task]
        answered == {p \in mon.polled : p[2] # <<>>}
        IsScore(task_result) == task_result.result_data[1].type = "MULTI_SCORE"
        Reported(p, m) == Get(SelectSeq(p[2], IsScore)[1].result_data[1].value, m, 0)
        total(m) == SumPairs({<<p[1], Reported(p, m)>> : p \in answered})
    IN (/\ mon.pc = "miner"
        /\ mon.miner > Len(MinerResponsesOf(db, request_id))
        /\ ~mon.failed
        /\ answered # {}
        /\ \A p \in answered : Len(SelectSeq(p[2], IsScore)) = 1)
       => \A p \in answered, m \in Models :
            \A r \in CompletionRowsOf(db, request_id) :
                (r.hotkey = p[1] /\ r.model = m)
                    => /\ r.score.n # 0
                       /\ r.score.sum * Cardinality(answered) = total(m) * r.score.n

\* C10: with a monitor that keeps running and store calls that succeed, a
\* task whose miners were polled and whose averages were persisted is
\* eventually marked processed.
C10_AggregatedEventuallyProcessed ==
    \A t \in TaskIds :
        ([]~_should_exit)
            => ((CompletionRowsOf(db, t) # {}) ~> db.ValidatorTask[t].is_processed)

\* ------------------------------------------------------------------------
\* Properties of _calculate_averages
\* ------------------------------------------------------------------------
AveragedTypes == {"RANKING_CRITERIA", "MULTI_SCORE"}

OutputOf(value, type) ==
    IF type = "RANKING_CRITERIA" THEN value.model_id_to_avg_rank
    ELSE value.model_id_to_avg_score

\* every report of a result of the type: <<<<worker, position, model id>>, number>>
ReportsOfType(task_results, type) ==
    UNION {UNION {{<<<<i, j, p[1]>>, p[2]>> : p \in task_results[i].result_data[j].value} :
                      j \in {k \in 1..Len(task_results[i].result_data) :
                                 task_results[i].result_data[k].type = type}} :
               i \in 1..Len(task_results)}

WorkersReporting(task_results, type) ==
    {i \in 1..Len(task_results) :
        \E j \in 1..Len(task_results[i].result_data) :
            task_results[i].result_data[j].type = type}

RealIdOf(map, id) == IF id \in Keys(map) THEN (CHOOSE p \in map : p[1] = id)[2] ELSE id

\* C12: for every list of task results and each averaged type, the average
\* of a model is the sum of the numbers reported for it in the results of
\* that type divided by the number of workers reporting that type, the same
\* denominator for every model and a worker counted once per type.
C12_AverageOverWorkersOfType ==
    (call.fn = "_calculate_averages" /\ result.done)
    => \A type \in AveragedTypes :
         LET out == OutputOf(result.value, type)
             reports == ReportsOfType(call.task_results, type)
             workers == Cardinality(WorkersReporting(call.task_results, type))
         IN \A m \in Keys(out) :
              LET avg == Get(out, m, NoAvg)
                  sum == SumPairs({r \in reports :
                             RealIdOf(call.obfuscated_to_real_model_id, r[1][3]) = m})
              IN /\ avg.n # 0
                 /\ avg.sum * workers = sum * avg.n

\* C13: every model id reported in a result of an averaged type is output
\* under its real id when it is a key of the obfuscated-to-real map and
\* under the reported id itself when it is not, nothing is dropped and
\* nothing else is output; the map {obf1: real1} with the ranking report
\* {obf1: 3, obf2: 5} gives {real1: 3, obf2: 5}.
C13_DeobfuscationFallback ==
    (call.fn = "_calculate_averages" /\ result.done)
    => /\ \A type \in AveragedTypes :
            LET out == OutputOf(result.value, type)
                reported == {r[1][3] : r \in ReportsOfType(call.task_results, type)}
                map == call.obfuscated_to_real_model_id
            IN /\ \A id \in reported :
                    IF id \in Keys(map) THEN Get(map, id, None) \in Keys(out)
                    ELSE id \in Keys(out)
               /\ Keys(out) = {RealIdOf(map, id) : id \in reported}
       /\ (/\ call.task_results =
                 <<TaskResultOf("RANKING_CRITERIA", {<<"obf1", 3>>, <<"obf2", 5>>})>>
           /\ call.obfuscated_to_real_model_id = {<<"obf1", "real1">>})
          => result.value.model_id_to_avg_rank =
                 {<<"real1", [sum |-> 3, n |-> 1]>>, <<"obf2", [sum |-> 5, n |-> 1]>>}

C13_Witness ==
    /\ call.fn = "_calculate_averages"
    /\ result.done
    /\ call.task_results = <<TaskResultOf("RANKING_CRITERIA", {<<"obf1", 3>>, <<"obf2", 5>>})>>
    /\ call.obfuscated_to_real_model_id = {<<"obf1", "real1">>}
    /\ Keys(result.value.model_id_to_avg_rank) = {"real1", "obf2"}

\* ------------------------------------------------------------------------
\* Properties of ORM.get_expired_tasks
\* ------------------------------------------------------------------------
IsGetCall == orm_op = "get_expired_tasks" /\ call.fn = "get_expired_tasks"

\* the unprocessed stored tasks with expire_at strictly inside a window
InWindow(d, expire_from, expire_to) ==
    {t \in TaskIds : /\ d.ValidatorTask[t].present
                     /\ ~d.ValidatorTask[t].is_processed
                     /\ expire_from < d.ValidatorTask[t].expire_at
                     /\ d.ValidatorTask[t].expire_at < expire_to}

CeilDiv(n, b) == (n + b - 1) \div b

\* C14: a call with expire_from > expire_to fails with
\* ExpiredFromMoreThanExpireTo, without a batch and whatever the store would
\* answer (the check comes before any query); a call with
\* expire_from <= expire_to never fails with it.
C14_WindowCheckedFirst ==
    (IsGetCall /\ call.expire_from # NoTime /\ call.expire_to # NoTime)
    => /\ (call.expire_from > call.expire_to)
              <=> (orm_ret.kind = "ExpiredFromMoreThanExpireTo")
       /\ orm_ret.kind = "ExpiredFromMoreThanExpireTo" => (call.yields = 0 /\ gen = IdleGen)

C14_Witness ==
    /\ IsGetCall
    /\ call.expire_from # NoTime
    /\ call.expire_to # NoTime
    /\ call.expire_from > call.expire_to
    /\ call.fault
    /\ StoredIds(db) # {}
    /\ orm_ret.kind = "ExpiredFromMoreThanExpireTo"

\* C15: with a valid window and a store that answers, the call fails with
\* NoNewExpiredTasksYet exactly when no unprocessed task has its expire_at
\* inside the window, and then yields nothing; otherwise it yields a batch.
C15_NoNewExactlyWhenCountZero ==
    LET expire_from == DefaultExpireFrom(call.expire_from, call.now)
        expire_to == DefaultExpireTo(call.expire_to, call.now)
        n == Cardinality(InWindow(db, expire_from, expire_to))
    IN (IsGetCall /\ expire_from <= expire_to /\ ~call.fault)
       => /\ (orm_ret.kind = "NoNewExpiredTasksYet") <=> (n = 0)
          /\ n = 0 => (call.yields = 0 /\ gen = IdleGen)
          /\ n > 0 => (orm_ret.kind = "batch" /\ call.yields = 1)

C15_Witness ==
    /\ IsGetCall
    /\ ~call.fault
    /\ orm_ret.kind = "NoNewExpiredTasksYet"
    /\ \E t \in StoredIds(db) :
         /\ db.ValidatorTask[t].is_processed
         /\ db.ValidatorTask[t].expire_at > DefaultExpireFrom(call.expire_from, call.now)
         /\ db.ValidatorTask[t].expire_at < DefaultExpireTo(call.expire_to, call.now)

\* what holds of a yielded batch when it was fetched
BatchAsFetched ==
    orm_ret.kind = "batch"
    => /\ Range(orm_ret.ids) \subseteq InWindow(db, gen.expire_from, gen.expire_to)
       /\ Len(orm_ret.ids) <= gen.batch_size
       /\ \A i \in 1..Len(orm_ret.ids), j \in 1..Len(orm_ret.ids) :
            i < j => db.ValidatorTask[orm_ret.ids[i]].created_at
                         >= db.ValidatorTask[orm_ret.ids[j]].created_at

\* a step that yields a further batch of the iteration
YieldsFurtherBatch ==
    /\ orm_op' = "get_expired_tasks_next"
    /\ orm_ret'.kind = "batch"
    /\ orm_ret'.ids # <<>>
    /\ call.last # 0

\* C16 as claimed: every task of a yielded batch was, when fetched,
\* unprocessed with expire_at strictly inside the window, a batch holds at
\* most batch_size tasks, and created_at does not increase within a batch
\* nor from one batch to the next.
C16_BatchesFilteredAndOrdered ==
    /\ []BatchAsFetched
    /\ [][YieldsFurtherBatch
             => db.ValidatorTask[orm_ret'.ids[1]].created_at <= call.last]_vars

\* C16 amended: the same, with the order from one batch to the next holding
\* when no task was saved between the two fetches.
C16_OrderedUnlessSavedBetween ==
    /\ []BatchAsFetched
    /\ [][(YieldsFurtherBatch /\ Cardinality(StoredIds(db)) = call.stored)
             => db.ValidatorTask[orm_ret'.ids[1]].created_at <= call.last]_vars

C16_Witness ==
    /\ orm_op = "get_expired_tasks_next"
    /\ orm_ret.kind = "batch"
    /\ orm_ret.ids # <<>>
    /\ gen.batch_size = 2
    /\ call.yields = 2
    /\ \E t \in StoredIds(db) : db.ValidatorTask[t].is_processed

\* C17: an iteration that starts with n > 0 matching tasks and batch size b
\* ends after exactly ceil(n / b) batches; the last of them carries
\* has_more = false and every earlier one has_more = true.
C17_CeilBatchesLastHasNoMore ==
    /\ []((orm_ret.kind = "batch" /\ call.fn = "get_expired_tasks")
            => /\ call.yields <= CeilDiv(gen.count, gen.batch_size)
               /\ orm_ret.has_more <=> (call.yields < CeilDiv(gen.count, gen.batch_size)))
    /\ [][(orm_op' = "get_expired_tasks_next" /\ orm_ret'.kind = "StopAsyncIteration")
             => call.yields = CeilDiv(gen.count, gen.batch_size)]_vars

C17_Witness ==
    /\ orm_op = "get_expired_tasks_next"
    /\ orm_ret.kind = "batch"
    /\ ~orm_ret.has_more
    /\ gen.count = 3
    /\ gen.batch_size = 2
    /\ call.yields = 2

\* C18: an omitted expire_to is now - TASK_DEADLINE, an omitted expire_from
\* is the effective expire_to minus six hours, also when expire_to was
\* supplied, so a call that supplies only expire_to never fails with
\* ExpiredFromMoreThanExpireTo.
C18_DefaultFromFollowsExpireTo ==
    IsGetCall
    => /\ (call.expire_from = NoTime /\ call.expire_to # NoTime)
              => orm_ret.kind # "ExpiredFromMoreThanExpireTo"
       /\ orm_ret.kind = "batch"
              => /\ call.expire_to = NoTime => gen.expire_to = call.now - TASK_DEADLINE
                 /\ call.expire_from = NoTime => gen.expire_from = gen.expire_to - SIX_HOURS


\* ------------------------------------------------------------------------
\* DataManager.overwrite_miner_responses_by_request_id
\* ------------------------------------------------------------------------
RECURSIVE SumLen(_)
SumLen(miner_responses) ==
    IF miner_responses = <<>> THEN 0
    ELSE Len(Head(miner_responses).completion_responses) + SumLen(Tail(miner_responses))

\* the rows are exactly the supplied responses: one row per miner and completion
MatchesSupplied(rows, miner_responses) ==
    /\ Cardinality(rows.miner_response_model) = Len(miner_responses)
    /\ Cardinality(rows.completion_response_model) = SumLen(miner_responses)
    /\ {r.hotkey : r \in rows.miner_response_model}
           = {miner_responses[k].hotkey : k \in 1..Len(miner_responses)}
    /\ \A c \in rows.completion_response_model :
           \E r \in rows.miner_response_model, k \in 1..Len(miner_responses) :
               /\ r.id = c.miner_response_id
               /\ miner_responses[k].hotkey = r.hotkey
               /\ \E n \in 1..Len(miner_responses[k].completion_responses) :
                      /\ miner_responses[k].completion_responses[n].model = c.model
                      /\ miner_responses[k].completion_responses[n].score = c.score

\* C19: a reader of a request's rows, running while an overwrite call for
\* that request is between its statements or after the call returned (True or
\* False), is given either the complete set of rows the request had when the
\* call began or the complete supplied set: never the empty set between the
\* delete and the insert, never a mixture.
C19_ReaderSeesPriorOrNew ==
    (/\ dm_reader.during # "idle"
     /\ dm_reader.request_id = dm_reader.call_request_id)
        => \/ dm_reader.rows = RowsOfRequest(dm_reader.prior, dm_reader.request_id)
           \/ MatchesSupplied(dm_reader.rows, dm_reader.miner_responses)

\* a reader ran between the delete and the insert of a call that replaces a
\* non-empty set by a different non-empty one
C19_Witness ==
    /\ dm_reader.during = "create"
    /\ dm_reader.request_id = dm_reader.call_request_id
    /\ dm_reader.miner_responses # <<>>
    /\ dm_reader.rows.completion_response_model # {}
    /\ ~MatchesSupplied(dm_reader.rows, dm_reader.miner_responses)

\* C20: every overwrite call that met no store failure returns True, and when
\* it has returned the stored rows of its request are exactly the supplied
\* ones, one row per miner and completion, none left from an earlier call.
C20_LastCallReplacesAll ==
    (dm_tx.pc = "returned" /\ ~dm_tx.fault)
        => /\ dm_tx.ret
           /\ MatchesSupplied(RowsOfRequest(dm_db, dm_tx.request_id),
                              dm_tx.miner_responses)


\* ------------------------------------------------------------------------
\* The monitor's handling of failures, cancellation and batches
\* ------------------------------------------------------------------------
BodyPcs == {"stream", "next_batch", "task", "miner"}

C22_ErrorsNeverKillLoop ==
    [][/\ mon'.error => mon'.pc = "sleep"
       /\ (mon.pc \in BodyPcs /\ mon' # mon) => mon'.pc \in BodyPcs \cup {"sleep"}
       /\ (mon.pc = "sleep" /\ mon' # mon) => mon'.pc = "loop"
       /\ (mon'.pc = "exited" /\ mon.pc # "exited") => (mon.pc = "loop" /\ _should_exit)]_vars

\* an exception was caught and the loop is at its sleep
C22_Witness == mon.pc = "sleep" /\ mon.error

\* C23: once _should_exit is true the monitor eventually terminates; the
\* loop test that sees the flag starts no iteration, so a flag set during
\* the initial delay lets no iteration run.
C23_CooperativeCancellation ==
    /\ _should_exit ~> (mon.pc = "exited")
    /\ [][(_should_exit /\ mon.pc = "loop" /\ mon' # mon) => mon'.pc = "exited"]_vars
    /\ [][(_should_exit /\ mon.pc = "startup" /\ mon' # mon) => mon'.pc = "loop"]_vars

C23_Witness == _should_exit /\ mon.pc = "exited"

\* C24: when the task stream is opened and yields its first batch without
\* raising, the monitor works on the tasks of that batch, also when it is the
\* only batch of the stream.
C24_EveryYieldedBatchPolled ==
    [][(mon.pc = "stream" /\ mon' # mon /\ ~mon'.error)
          => /\ mon'.pc = "task"
             /\ mon'.batch = FindManyUnexpired(db, clock, 0, MONITOR_BATCH_SIZE)]_vars

\* ------------------------------------------------------------------------
\* DojoAPI.create_task and DojoAPI.get_task_results_by_task_id
\* ------------------------------------------------------------------------
\* the POST was answered with status 200 and a JSON body
Ok200(response) == response.sent /\ response.status = 200 /\ response.json

\* the GET was answered without an error status and with a JSON body
GotBody(response) == response.sent /\ response.status < 400 /\ response.json

\* the delay after the 0-based attempt i lies in [base*2^i, base*2^i + 1]
DelayInBounds(c, i) ==
    /\ c.delays[i + 1] # NoDelay
    /\ BASE_DELAY * Pow2(i) <= c.delays[i + 1]
    /\ c.delays[i + 1] <= BASE_DELAY * Pow2(i) + 1

\* C25: create_task makes at most 5 attempts; it returns the task ids at the
\* first attempt answered with status 200 and attempts nothing after it; a
\* failed attempt is followed by another while attempts remain; it raises
\* exactly when all 5 attempts failed, and then CreateTaskFailed.
C25_AtMostFiveAttempts ==
    call.fn = "create_task" =>
        LET n == Len(call.responses) IN
        /\ n <= MAX_RETRIES
        /\ \A i \in 1..n : Ok200(call.responses[i]) <=> (i = n /\ result.done /\ result.raised = None)
        /\ result.done => (result.raised = None => result.value = "task_ids")
        /\ result.done => (result.raised # None => result.raised = "CreateTaskFailed")
        /\ result.done <=> (n > 0 /\ (Ok200(call.responses[n]) \/ n = MAX_RETRIES))

\* all five attempts failed and the call raised
C25_Witness ==
    /\ call.fn = "create_task"
    /\ Len(call.responses) = MAX_RETRIES
    /\ result.done
    /\ result.raised = "CreateTaskFailed"

\* C26: after every unsuccessful attempt i < 4 of create_task, whatever made
\* it unsuccessful, the client waits a delay in [base*2^i, base*2^i + 1]
\* before attempt i+1; after the fifth attempt it waits no more.
C26_BackoffAfterEveryFailure ==
    call.fn = "create_task" =>
        \A i \in 0..(Len(call.responses) - 1) :
            IF Ok200(call.responses[i + 1]) \/ i = MAX_RETRIES - 1
            THEN call.delays[i + 1] = NoDelay
            ELSE DelayInBounds(call, i)

\* C27: get_task_results_by_task_id never raises; an answered request ends
\* the call at once, with the taskResults when they are non-empty and with
\* null when the field is missing or empty; a failed request is followed by a
\* delay in [base*2^i, base*2^i + 1] and another attempt, and the fifth
\* failure ends the call with null.
C27_ResultsOrNullNeverRaises ==
    call.fn = "get_task_results_by_task_id" =>
        LET n == Len(call.responses) IN
        /\ n <= MAX_RETRIES
        /\ result.done => result.raised = None
        /\ \A i \in 1..n :
               IF GotBody(call.responses[i])
               THEN /\ i = n
                    /\ result.done
                    /\ result.value = IF call.responses[i].task_results = "nonempty"
                                      THEN "task_results" ELSE None
                    /\ call.delays[i] = NoDelay
               ELSE IF i = MAX_RETRIES
               THEN result.done /\ result.value = None /\ call.delays[i] = NoDelay
               ELSE DelayInBounds(call, i - 1)
        /\ result.done => n > 0 /\ (GotBody(call.responses[n]) \/ n = MAX_RETRIES)

\* the first answered request had an empty taskResults and the call returned
\* null with no further attempt, after one failure that was retried
C27_Witness ==
    /\ call.fn = "get_task_results_by_task_id"
    /\ Len(call.responses) = 2
    /\ GotBody(call.responses[2])
    /\ call.responses[2].task_results = "empty"
    /\ result.done
    /\ result.value = None


\* ------------------------------------------------------------------------
\* The simulated miner's scores and its rejected calls
\* ------------------------------------------------------------------------
\* C28: for every ground-truth map with integer ranks in 1..10 and every
\* jitter, the generated map has exactly the keys of the ground truth and
\* every score is an integer in 1..100.
C28_ScoresWithinBounds ==
    (call.fn = "_generate_scores" /\ result.done)
        => /\ Keys(result.value) = Keys(call.ground_truth)
           /\ Cardinality(result.value) = Cardinality(call.ground_truth)
           /\ \A p \in result.value : p[2] \in 1..100

\* rank 10 was clamped down to 100 and rank 1 with negative jitter gave 1
C28_Witness ==
    /\ call.fn = "_generate_scores"
    /\ result.done
    /\ call.ground_truth = {<<"A", 10>>, <<"B", 1>>}
    /\ call.down = {"B"}
    /\ result.value = {<<"A", 100>>, <<"B", 1>>}

\* C29: a forward_task_result_request for a task id with no entry in the
\* cache (never stored, consumed or expired) returns the synapse with empty
\* task_results and leaves the cache and the hotkey table as they were.
C29_AbsentRequestGivesEmpty ==
    [][(/\ miner_op'.name = "forward_task_result_request"
        /\ miner_op'.id # None
        /\ redis[RedisKey(miner_op'.id)] = NoRequest)
          => /\ miner_ret' = EmptyTaskResultRequest(miner_op'.id)
             /\ redis' = redis
             /\ hotkey_to_request' = hotkey_to_request]_vars

\* a request was polled again after its results had been consumed
C29_Witness ==
    \E id \in RequestIds :
        /\ miner_op.name = "forward_task_result_request"
        /\ miner_op.id = id
        /\ miner_ret.task_results = <<>>
        /\ redis[RedisKey(id)] = NoRequest
        /\ nonEmptyCount[id] = 1
        /\ \E h \in ValidatorHotkeys : hotkey_to_request[h].request_id = id

\* C30: a forward_feedback_request whose synapse has no dendrite hotkey or
\* no completion_responses returns that synapse as it was, dojo_task_id
\* unset, and leaves the cache and the hotkey table as they were.
C30_RejectedRequestHasNoEffect ==
    [][(/\ miner_op'.name = "forward_feedback_request"
        /\ \/ miner_op'.synapse.hotkey = None
           \/ miner_op'.synapse.completion_responses = <<>>)
          => /\ miner_ret' = miner_op'.synapse
             /\ miner_ret'.dojo_task_id = None
             /\ redis' = redis
             /\ hotkey_to_request' = hotkey_to_request
             /\ nonEmptyCount' = nonEmptyCount]_vars

\* a synapse without hotkey was rejected while the cache held a request
C30_Witness ==
    /\ miner_op.name = "forward_feedback_request"
    /\ miner_ret.hotkey = None
    /\ miner_ret.dojo_task_id = None
    /\ \E id \in RequestIds : redis[RedisKey(id)] # NoRequest

\* ------------------------------------------------------------------------
\* C31: for every task type and every combination of the four criterion
\* types on the completions, mapping the task to its row succeeds and the
\* row keeps the task type and, per criterion, its type and config
\* (min/max, options); a criterion read back from its legacy row is the
\* criterion that was written.
\* ------------------------------------------------------------------------
\* the config a stored criterion must carry for the criterion it came from
ConfigKept(criteria, config) ==
    /\ criteria.class \in {"ScoreCriteria", "MultiScoreCriteria"}
           => /\ {"min", "max"} \subseteq config.keys
              /\ config.min = criteria.min
              /\ config.max = criteria.max
    /\ criteria.class \in {"MultiSelectCriteria", "RankingCriteria", "MultiScoreCriteria"}
           => /\ "options" \in config.keys
              /\ config.options = criteria.options

C31_MapperRoundTrip ==
    /\ (call.fn = "map_task_synapse_object_to_validator_task" /\ result.done)
           => /\ result.value.raised = None
              /\ result.value.task_type = call.synapse.task_type
              /\ Len(result.value.completions) = Len(call.synapse.completion_responses)
              /\ \A i \in 1..Len(result.value.completions) :
                     LET stored == result.value.completions[i].criterion
                         given == call.synapse.criteria_types[i]
                     IN /\ Len(stored) = Len(given)
                        /\ \A j \in 1..Len(stored) :
                               ConfigKept(given[j], JsonLoads(stored[j].config))
    /\ (call.fn = "map_criteria_type_to_model" /\ result.done)
           => result.value = call.criteria

\* ------------------------------------------------------------------------
\* C32: in every reachable store state the GroundTruth rows of each saved
\* task carry the ranks 1..N, each once, one row per completion of the
\* task, N being the number of its completions.
\* ------------------------------------------------------------------------
GroundTruthRowsOf(d, task_id) == {g \in d.GroundTruth : g.validator_task_id = task_id}

C32_RanksDensePermutation ==
    \A t \in StoredIds(db) :
        LET rows == GroundTruthRowsOf(db, t)
            completions == {c \in db.Completion : c.validator_task_id = t}
            N == Cardinality(completions)
        IN /\ Cardinality(rows) = N
           /\ {g.rank_id : g \in rows} = 1..N
           /\ {g.obfuscated_model_id : g \in rows} = {c.model : c \in completions}

\* ------------------------------------------------------------------------
\* C33: when the store is not modified during an iteration of
\* get_expired_tasks, the batches yielded so far hold no task twice and only
\* tasks that matched at the start, and when the iteration has ended they
\* hold every task that matched at the start.
\* ------------------------------------------------------------------------
NoDuplicates(ids) == \A i \in 1..Len(ids), j \in 1..Len(ids) : ids[i] = ids[j] => i = j

\* the consumer's "async for" has run to its end
IterationEnded == orm_op = "get_expired_tasks_next" /\ orm_ret.kind = "StopAsyncIteration"

C33_QuietIterationYieldsEachOnce ==
    (call.fn = "get_expired_tasks" /\ call.quiet)
        => /\ NoDuplicates(call.seen)
           /\ Range(call.seen) \subseteq call.start
           /\ IterationEnded => Range(call.seen) = call.start

C33_Witness ==
    /\ call.fn = "get_expired_tasks"
    /\ call.quiet
    /\ IterationEnded
    /\ call.yields = 2
    /\ Len(call.seen) = 3
    /\ \E t \in StoredIds(db) : db.ValidatorTask[t].is_processed

\* ------------------------------------------------------------------------
\* C34: when the consumer marks every task of a yielded batch as processed
\* before it asks for the next batch, and nothing else changes the store,
\* every task that matched at the start of the iteration has been yielded
\* when the iteration ends.
\* ------------------------------------------------------------------------
C34_MarkingConsumerSeesAll ==
    (call.fn = "get_expired_tasks" /\ call.consumed /\ IterationEnded)
        => call.start \subseteq Range(call.seen)

\* ------------------------------------------------------------------------
\* C35: when tasks are saved and none is marked between the batches of an
\* iteration, no task is yielded twice and every task that matched at the
\* start has been yielded when the iteration ends.
\* ------------------------------------------------------------------------
C35_SavesBetweenBatches ==
    (call.fn = "get_expired_tasks" /\ call.unmarked)
        => /\ NoDuplicates(call.seen)
           /\ IterationEnded => call.start \subseteq Range(call.seen)

\* ------------------------------------------------------------------------
\* C36: a poll that draws no_response or timeout returns empty task_results
\* and leaves the cache as it is; a poll changes the cache only by deleting
\* the entry of its task id, and only when it drew normal and found the
\* entry; a normal poll that finds the entry returns the results built from
\* it, so the request stored before a failed poll is still answered.
\* ------------------------------------------------------------------------
C36_FailedPollKeepsEntry ==
    [][miner_op'.name = "forward_task_result_request"
         => /\ miner_op'.behavior \in {"no_response", "timeout"}
                  => /\ miner_ret'.task_results = <<>>
                     /\ redis' = redis
            /\ redis' # redis
                  => /\ miner_op'.behavior = "normal"
                     /\ miner_op'.id # None
                     /\ redis[RedisKey(miner_op'.id)] # NoRequest
                     /\ redis' = [redis EXCEPT ![RedisKey(miner_op'.id)] = NoRequest]
            /\ (/\ miner_op'.behavior = "normal"
                /\ miner_op'.fault = "none"
                /\ miner_op'.id # None
                /\ redis[RedisKey(miner_op'.id)] # NoRequest)
                  => /\ \E down \in Jitters :
                            miner_ret'.task_results =
                                BuildTaskResults(redis[RedisKey(miner_op'.id)], miner_op'.id,
                                                 "normal", down)
                     /\ redis'[RedisKey(miner_op'.id)] = NoRequest]_vars

\* a poll that timed out on a request that is still in the cache
C36_Witness ==
    /\ miner_op.name = "forward_task_result_request"
    /\ miner_op.behavior = "timeout"
    /\ miner_op.id # None
    /\ redis[RedisKey(miner_op.id)] # NoRequest
    /\ redis[RedisKey(miner_op.id)].criteria_types # <<>>
    /\ miner_ret.task_results = <<>>

\* ------------------------------------------------------------------------
\* C37: a forward_feedback_request that passes validation returns the
\* synapse with its completion_responses kept and dojo_task_id = request_id;
\* when the cache write succeeds the entry feedback:{request_id} is the
\* inbound request with completion_responses empty, so it has the inbound
\* ground truth and not the tag, while the returned synapse is scrubbed; no
\* other cache entry changes.
\* ------------------------------------------------------------------------
C37_StoredCopyIsIndependent ==
    [][(/\ miner_op'.name = "forward_feedback_request"
        /\ miner_op'.synapse.hotkey # None
        /\ miner_op'.synapse.completion_responses # <<>>)
          => /\ miner_ret'.completion_responses = miner_op'.synapse.completion_responses
             /\ miner_ret'.dojo_task_id = miner_op'.synapse.request_id
             /\ miner_op'.fault = "none"
                   => /\ redis' = [redis EXCEPT ![RedisKey(miner_op'.id)] =
                                      [miner_op'.synapse EXCEPT !.completion_responses = <<>>]]
                      /\ redis'[RedisKey(miner_op'.id)].ground_truth
                             = miner_op'.synapse.ground_truth
                      /\ redis'[RedisKey(miner_op'.id)].dojo_task_id = None
                      /\ miner_ret'.ground_truth = EmptyMap]_vars

C37_Witness ==
    /\ miner_op.name = "forward_feedback_request"
    /\ miner_op.fault = "none"
    /\ miner_op.synapse.hotkey # None
    /\ miner_op.synapse.ground_truth # EmptyMap
    /\ redis[RedisKey(miner_op.id)].ground_truth = miner_op.synapse.ground_truth
    /\ redis[RedisKey(miner_op.id)].completion_responses = <<>>
    /\ miner_ret.completion_responses # <<>>
    /\ miner_ret.ground_truth = EmptyMap
    /\ miner_ret.dojo_task_id = miner_op.id

\* ------------------------------------------------------------------------
\* C38: _calculate_averages returns for every input list and never divides
\* by zero; with no RANKING_CRITERIA result the rank map is empty, with no
\* MULTI_SCORE result the score map is empty, and a result of another type
\* adds to no sum and to no denominator: the denominator of a map is the
\* number of results of its own type and each sum is over these alone.
\* ------------------------------------------------------------------------
\* the results of a type: <<worker, position>>
EntriesOfType(task_results, type) ==
    {<<i, j>> \in (1..Len(task_results)) \X (1..2) :
        /\ j <= Len(task_results[i].result_data)
        /\ task_results[i].result_data[j].type = type}

C38_AveragesNeverDivideByZero ==
    call.fn = "_calculate_averages"
    => <>(/\ result.done
          /\ \A type \in AveragedTypes :
               LET out == OutputOf(result.value, type)
                   entries == EntriesOfType(call.task_results, type)
                   reports == ReportsOfType(call.task_results, type)
               IN /\ entries = {} => out = {}
                  /\ \A m \in Keys(out) :
                       LET avg == Get(out, m, NoAvg) IN
                       /\ avg.n # 0
                       /\ avg.n = Cardinality(entries)
                       /\ avg.sum = SumPairs({r \in reports :
                              RealIdOf(call.obfuscated_to_real_model_id, r[1][3]) = m}))

\* a ranking and a SCORE result and no MULTI_SCORE result
C38_Witness ==
    /\ call.fn = "_calculate_averages"
    /\ result.done
    /\ EntriesOfType(call.task_results, "SCORE") # {}
    /\ EntriesOfType(call.task_results, "MULTI_SCORE") = {}
    /\ result.value.model_id_to_avg_score = {}
    /\ result.value.model_id_to_avg_rank # {}

\* ------------------------------------------------------------------------
\* C39: for every task stored through save_task, get_real_model_ids returns
\* a map whose keys are the keys of the ground truth of the task's synapse,
\* each mapped to itself, whatever the ground_truth argument of the save
\* was; the GroundTruth rows hold the ranks of the synapse's ground truth.
\* ------------------------------------------------------------------------
IdentityOn(keys) == {<<k, k>> : k \in keys}

C39_RealModelIdsAreIdentity ==
    /\ \A t \in RealIdsTasks \cap StoredIds(db) :
         /\ RealModelIds(db, t) = IdentityOn(Keys(call.ground_truth[t]))
         /\ {<<g.obfuscated_model_id, g.rank_id>> : g \in GroundTruthRowsOf(db, t)}
                = call.ground_truth[t]
    /\ (orm_op = "get_real_model_ids" /\ orm_ret.kind = "map")
           => orm_ret.map = IF db.ValidatorTask[call.task_id].present
                            THEN IdentityOn(Keys(call.ground_truth[call.task_id]))
                            ELSE {}

\* the map of a task saved with an argument that has other keys than the
\* ground truth of its synapse
C39_Witness ==
    /\ orm_op = "get_real_model_ids"
    /\ orm_ret.kind = "map"
    /\ db.ValidatorTask[call.task_id].present
    /\ orm_ret.map = {<<"A", "A">>, <<"B", "B">>}
    /\ call.argument[call.task_id] = {<<"B", 1>>}

\* ------------------------------------------------------------------------
\* C40: DataManager.save_task with a valid validator request and a store
\* that does not fail skips each miner response that lacks an axon hotkey
\* or a dojo_task_id and persists the others, with their completions,
\* together with the validator's request and its criteria; when no miner
\* response is valid it returns None, and whenever it returns None the
\* tables are as before the call.
\* ------------------------------------------------------------------------
ValidMinerResponses(miner_responses) ==
    {i \in 1..Len(miner_responses) :
        miner_responses[i].hotkey # None /\ miner_responses[i].dojo_task_id # None}

\* the rows the call added to a table
Added(table) == dm_db[table] \ call.prior[table]

C40_InvalidMinersSkippedOrTaskAborted ==
    /\ (call.fn = "DataManager.save_task" /\ result.done /\ result.value = 0)
           => dm_db = call.prior
    /\ (/\ call.fn = "DataManager.save_task"
        /\ result.done
        /\ call.fault = "none"
        /\ map_parent_feedback_request_to_model(call.validator_request, call.now).raised = None)
       =>
       LET valid == ValidMinerResponses(call.miner_responses)
           parents == {r \in Added("feedback_request_model") : r.parent_id = 0}
           children == {r \in Added("feedback_request_model") : r.parent_id # 0}
       IN /\ \A table \in DOMAIN dm_db : call.prior[table] \subseteq dm_db[table]
          /\ valid = {} => (result.value = 0 /\ dm_db = call.prior)
          /\ valid # {}
               => /\ result.value # 0
                  /\ \E p \in parents :
                       /\ parents = {p}
                       /\ p.id = result.value
                       /\ p.request_id = call.validator_request.request_id
                       /\ p.hotkey = call.validator_request.hotkey
                       /\ \A c \in children : c.parent_id = p.id
                       /\ {c.type : c \in Added("criteria_type_model")}
                              = {map_criteria_type_to_model(
                                     call.validator_request.criteria_types[k], p.id).type :
                                         k \in 1..Len(call.validator_request.criteria_types)}
                       /\ \A c \in Added("criteria_type_model") :
                              c.feedback_request_id = p.id
                  /\ Cardinality(children) = Cardinality(valid)
                  /\ {<<c.hotkey, c.dojo_task_id>> : c \in children}
                         = {<<call.miner_responses[i].hotkey,
                              call.miner_responses[i].dojo_task_id>> : i \in valid}
                  /\ \A c \in children :
                       {r.model : r \in {x \in Added("completion_response_model") :
                                            x.feedback_request_id = c.id}} = {"A", "B"}
                  /\ \A r \in Added("completion_response_model") :
                       \E c \in children : r.feedback_request_id = c.id

\* one response without dojo_task_id skipped, the other stored
C40_Witness ==
    /\ call.fn = "DataManager.save_task"
    /\ result.done
    /\ result.value # 0
    /\ call.fault = "none"
    /\ Len(call.miner_responses) = 2
    /\ Cardinality(ValidMinerResponses(call.miner_responses)) = 1
    /\ call.miner_responses[1].dojo_task_id = None
    /\ call.prior # EmptyFeedbackStore

====
